---- MODULE Spec2Model ----
(***************************************************************************)
(* A model of openhivenpy's client-side runtime:                           *)
(*   - the client cache (openhivenpy/client/cache.py, ClientCache) with    *)
(*     the entity normalizers it calls (openhivenpy/types/*.py),           *)
(*   - the event dispatch engine (openhivenpy/events/__init__.py),         *)
(*   - the client's connect/run/close calls and the gateway session they   *)
(*     await (openhivenpy/client/hivenclient.py), and                      *)
(*   - the REST layer (openhivenpy/gateway/http.py, HTTPClient).           *)
(*                                                                         *)
(* A Python dict is a function with a finite domain of keys; `d.update(e)` *)
(* is Merge(d, e); a missing key is a key outside DOMAIN.  An exception is *)
(* the `err` field of an operation's result; the cache the operation       *)
(* leaves behind (partial effects included) is its `cache` field.          *)
(***************************************************************************)
EXTENDS Integers, Sequences, FiniteSets, TLC

VARIABLES
    cache,              \* the ClientCache dict (cache.py:26-47)
    last,               \* outcome of the last cache operation: [op, err]
    active_listeners,   \* HivenEventHandler._active_listeners: event -> list of listener ids
    listeners,          \* the listener objects created so far, by id
    dispatches,         \* the call_listeners calls made so far, in call order
    waiters,            \* the wait_for calls made so far
    client,             \* the HivenClient: its _token and its last connect/run call
    session,            \* the gateway session a connect call is awaiting, if any
    http                \* the HTTPClient: http_ready, its session, its last call, and
                        \* whether close() was called since the last connect()

cacheVars == <<cache, last>>
eventVars == <<active_listeners, listeners, dispatches, waiters>>
clientVars == <<client, session, http>>
vars == <<cache, last, active_listeners, listeners, dispatches, waiters, client, session, http>>

-----------------------------------------------------------------------------
(* Python dicts *)

EmptyDict == << >>

\* dict.update: the keys of `new` override those of `old`, the others stay
Merge(old, new) == new @@ old

\* dict.get(key) is truthy
Truthy(d, key) == key \in DOMAIN d

\* partition[id] = data when the id is new, partition[id].update(data) otherwise
MergeInto(partition, id, data) ==
    IF id \in DOMAIN partition
        THEN (id :> Merge(partition[id], data)) @@ partition
        ELSE (id :> data) @@ partition

-----------------------------------------------------------------------------
(* Exceptions *)

NoError == [exc |-> "none", cause |-> "none"]

\* check_if_initialised's ValueError, raised outside the upserts' try blocks
NotInitialised == [exc |-> "ValueError", cause |-> "none"]

\* `raise InitializationError(...) from e`
Wrapped(cause) == [exc |-> "InitializationError", cause |-> cause]

\* an exception that propagates unwrapped
Raised(exc) == [exc |-> exc, cause |-> "none"]

Result(c, e, r) == [cache |-> c, err |-> e, ret |-> r]

\* outcome of a normalizer: the formatted dict or the exception it raises
Formatted(d) == [ok |-> TRUE, data |-> d, exc |-> "none"]
Rejected(exc) == [ok |-> FALSE, data |-> EmptyDict, exc |-> exc]

-----------------------------------------------------------------------------
(* The store *)

_create_default_dict ==
    [ token             |-> "undefined",
      client_user       |-> EmptyDict,
      houses            |-> EmptyDict,
      users             |-> EmptyDict,
      rooms_house       |-> EmptyDict,
      private_single    |-> EmptyDict,
      private_group     |-> EmptyDict,
      entities          |-> EmptyDict,
      relationships     |-> EmptyDict,
      house_memberships |-> EmptyDict,
      house_ids         |-> << >>,
      settings          |-> EmptyDict,
      read_state        |-> EmptyDict ]

\* the partitions an upsert may write
Partitions(c) ==
    <<c.houses, c.users, c.rooms_house, c.private_single, c.private_group,
      c.entities, c.relationships>>

\* (mutant) the guard tests `is not None`, which an empty dict passes
check_if_initialised_NotNone(c) == TRUE

check_if_initialised(c) == DOMAIN c.client_user # {}

-----------------------------------------------------------------------------
(* Entity normalizers.  Those of Entity and Relationship are in the source;  *)
(* the User, TextRoom, Member, House, PrivateRoom and PrivateGroupRoom       *)
(* normalizers the cache calls are not, and follow section 4.2 of the       *)
(* specification: validate the kind's fixed shape (required fields, no      *)
(* unknown field) and replace an embedded object by its id.                 *)

Remove(d, key) == [k \in DOMAIN d \ {key} |-> d[k]]

\* fastjsonschema: `required`, and `additionalProperties: False`
ValidShape(d, required, properties) ==
    /\ required \subseteq DOMAIN d
    /\ DOMAIN d \subseteq properties

\* fastjsonschema fills in the `default` of a property the data omits
WithDefault(d, key, value) == IF key \in DOMAIN d THEN d ELSE (key :> value) @@ d

\* Entity.json_schema
EntityProperties == {"id", "name", "type", "resource_pointers", "house_id", "house", "position"}
EntityRequired == {"id", "name", "position", "resource_pointers", "house_id"}
EntityDefaultType == 1

\* Entity.validate with Entity.json_schema
EntityValidate(d) ==
    IF ValidShape(d, EntityRequired, EntityProperties)
        THEN Formatted(WithDefault(d, "type", EntityDefaultType))
        ELSE Rejected("InvalidPassedDataError")

\* Entity.format_obj_data.  An embedded house is [kind |-> "obj", id |-> ..] for a
\* dict and [kind |-> "str", id |-> ..] for a plain string.
Entity_format_obj_data(data) ==
    IF ~Truthy(data, "house_id") /\ Truthy(data, "house")
        THEN IF data.house.kind = "obj"
                THEN EntityValidate(
                        ("house" :> data.house.id) @@ ("house_id" :> data.house.id)
                            @@ Remove(data, "house"))
                ELSE Rejected("InvalidPassedDataError")
        ELSE IF Truthy(data, "house_id")
                THEN EntityValidate(("house" :> data.house_id) @@ data)
                ELSE Rejected("InvalidPassedDataError")

UserProperties == {"id", "name", "bio"}
UserRequired == {"id", "name"}

User_format_obj_data(data) ==
    IF ValidShape(data, UserRequired, UserProperties)
        THEN Formatted(data)
        ELSE Rejected("InvalidPassedDataError")

RoomProperties == {"id", "name", "house_id", "house"}
RoomRequired == {"id", "name", "house_id"}

\* the room's house is stored as the house's id
TextRoom_format_obj_data(data) ==
    IF ValidShape(data, RoomRequired, RoomProperties)
        THEN Formatted(("house" :> data.house_id) @@ data)
        ELSE Rejected("InvalidPassedDataError")

MemberProperties == {"user", "house_id", "role"}
MemberRequired == {"user", "house_id", "role"}

\* a house member: the embedded user is stored as its id
Member_format_obj_data(member) ==
    [ user_id  |-> member.user.id,
      user     |-> member.user.id,
      house_id |-> member.house_id,
      role     |-> member.role ]

HouseProperties == {"id", "name", "rooms", "members", "entities"}
HouseRequired == {"id", "name", "rooms", "members", "entities"}

SeqIds(objs) == [i \in DOMAIN objs |-> objs[i].id]

\* the members of a house payload keyed by user id, a later entry of the list
\* replacing an earlier one of the same user
RECURSIVE MembersById(_)
MembersById(members) ==
    IF members = << >>
        THEN EmptyDict
        ELSE LET n == Len(members)
                 m == members[n]
             IN  (m.user.id :> Member_format_obj_data(m))
                    @@ MembersById(SubSeq(members, 1, n - 1))

\* House.format_obj_data: rooms and entities become lists of ids, members a
\* mapping from user id to member record
House_format_obj_data(data) ==
    IF /\ ValidShape(data, HouseRequired, HouseProperties)
       /\ \A i \in DOMAIN data.members :
            ValidShape(data.members[i], MemberRequired, MemberProperties)
        THEN Formatted(
                [ id       |-> data.id,
                  name     |-> data.name,
                  rooms    |-> SeqIds(data.rooms),
                  entities |-> SeqIds(data.entities),
                  members  |-> MembersById(data.members) ])
        ELSE Rejected("InvalidPassedDataError")

PrivateRoomProperties == {"id", "type", "name"}
PrivateRoomRequired == {"id", "type"}

\* PrivateRoom.format_obj_data and PrivateGroupRoom.format_obj_data
PrivateRoom_format_obj_data(data) ==
    IF ValidShape(data, PrivateRoomRequired, PrivateRoomProperties)
        THEN Formatted(data)
        ELSE Rejected("InvalidPassedDataError")

\* int(x) for the values a payload's `type` takes on the wire; FALSE in `ok`
\* is the ValueError of a value that is no number
ToInt(x) ==
    CASE x = "1" -> [ok |-> TRUE, n |-> 1]
      [] x = "2" -> [ok |-> TRUE, n |-> 2]
      [] x = "3" -> [ok |-> TRUE, n |-> 3]
      [] OTHER   -> [ok |-> FALSE, n |-> 0]

\* Relationship.schema: `required`; no `additionalProperties: False`
RelationshipRequired == {"user", "id", "type"}

\* Relationship.validate with Relationship.schema: a property the schema does
\* not name is let through
RelationshipValidate(d) ==
    IF RelationshipRequired \subseteq DOMAIN d
        THEN Formatted(d)
        ELSE Rejected("JsonSchemaException")

\* Context.json_schema
ContextProperties == {"room", "author", "timestamp", "house"}
ContextRequired == {"room", "author", "timestamp"}

\* Context.validate with Context.json_schema
ContextValidate(d) ==
    IF ValidShape(d, ContextRequired, ContextProperties)
        THEN Formatted(d)
        ELSE Rejected("JsonSchemaException")

\* utils.convert_value(int, value): the integer, or None (written -1) for what
\* is no number
convert_value_int(value) == IF ToInt(value).ok THEN ToInt(value).n ELSE -1

\* Relationship.form_object (the cache calls it format_obj_data): validates, then
\* stores the ids as integers and the other user as its id.  The payload's type
\* is an integer already (the schema demands one); a payload carries no
\* recipient_id, which is stored as None.
Relationship_format_obj_data(data) ==
    IF RelationshipValidate(data).ok
        THEN Formatted(
                [ type         |-> data.type,
                  id           |-> convert_value_int(data.id),
                  recipient_id |-> "None",
                  user         |-> convert_value_int(data.user.id) ]
                    @@ data)
        ELSE Rejected("JsonSchemaException")

-----------------------------------------------------------------------------
(* ClientCache operations.  Each is a function of the cache and the payload *)
(* giving the cache it leaves, the exception it raises and what it returns. *)

\* ClientCache.update_client_user
update_client_user(c, item_data) ==
    LET f == User_format_obj_data(item_data)
    IN  IF ~f.ok
            THEN Result(c, Raised(f.exc), EmptyDict)
            ELSE Result(
                    [c EXCEPT !.client_user = Merge(@, f.data),
                              !.users = MergeInto(@, item_data.id, f.data)],
                    NoError, f.data)

\* (mutant) no user is taken for the authenticated identity
IsClientUser_Never(c, id_) == FALSE

\* add_or_update_user, `id_ == self['client_user'].get('id')`
IsClientUser(c, id_) == "id" \in DOMAIN c.client_user /\ id_ = c.client_user.id

\* ClientCache.add_or_update_user
add_or_update_user(c, item_data) ==
    IF ~check_if_initialised(c)
        THEN Result(c, NotInitialised, EmptyDict)
    ELSE IF "id" \notin DOMAIN item_data
        THEN Result(c, Wrapped("KeyError"), EmptyDict)
    ELSE LET f == User_format_obj_data(item_data)
             id_ == item_data.id
         IN  IF ~f.ok
                THEN Result(c, Wrapped(f.exc), EmptyDict)
                ELSE LET u == IF IsClientUser(c, id_)
                                 THEN update_client_user(c, f.data)
                                 ELSE Result(c, NoError, EmptyDict)
                     IN  IF u.err # NoError
                            THEN Result(u.cache, Wrapped(u.err.exc), EmptyDict)
                            ELSE Result(
                                    [u.cache EXCEPT !.users = MergeInto(@, id_, f.data)],
                                    NoError, f.data)

\* ClientCache.add_or_update_room
add_or_update_room(c, item_data) ==
    IF ~check_if_initialised(c)
        THEN Result(c, NotInitialised, EmptyDict)
    ELSE IF "id" \notin DOMAIN item_data
        THEN Result(c, Wrapped("KeyError"), EmptyDict)
    ELSE LET f == TextRoom_format_obj_data(item_data)
         IN  IF ~f.ok
                THEN Result(c, Wrapped(f.exc), EmptyDict)
                ELSE Result(
                        [c EXCEPT !.rooms_house = MergeInto(@, item_data.id, f.data)],
                        NoError, f.data)

\* ClientCache.add_or_update_entity
add_or_update_entity(c, item_data) ==
    IF ~check_if_initialised(c)
        THEN Result(c, NotInitialised, EmptyDict)
    ELSE IF "id" \notin DOMAIN item_data
        THEN Result(c, Wrapped("KeyError"), EmptyDict)
    ELSE LET f == Entity_format_obj_data(item_data)
         IN  IF ~f.ok
                THEN Result(c, Wrapped(f.exc), EmptyDict)
                ELSE Result(
                        [c EXCEPT !.entities = MergeInto(@, item_data.id, f.data)],
                        NoError, f.data)

\* the outcome of one of add_or_update_house's loops: the cache it leaves and
\* the exception that ended it ("none" when it ran through)
Loop(c, exc) == [cache |-> c, exc |-> exc]

\* add_or_update_house, `for room in data['rooms']`
RECURSIVE HouseRooms(_, _, _)
HouseRooms(c, rooms, id_) ==
    IF rooms = << >>
        THEN Loop(c, "none")
        ELSE LET f == TextRoom_format_obj_data(("house_id" :> id_) @@ Head(rooms))
             IN  IF ~f.ok
                    THEN Loop(c, f.exc)
                    ELSE LET r == add_or_update_room(c, f.data)
                         IN  IF r.err # NoError
                                THEN Loop(r.cache, r.err.exc)
                                ELSE HouseRooms(r.cache, Tail(rooms), id_)

\* (mutant) the members' users of a house payload are validated but never cached
HouseMembers_NotCached(c, members, id_) ==
    IF \A i \in DOMAIN members : User_format_obj_data(members[i].user).ok
        THEN Loop(c, "none")
        ELSE Loop(c, "InvalidPassedDataError")

\* add_or_update_house, `for member in data['members']`
RECURSIVE HouseMembers(_, _, _)
HouseMembers(c, members, id_) ==
    IF members = << >>
        THEN Loop(c, "none")
        ELSE LET f == User_format_obj_data(Head(members).user)
             IN  IF ~f.ok
                    THEN Loop(c, f.exc)
                    ELSE LET r == add_or_update_user(c, f.data)
                         IN  IF r.err # NoError
                                THEN Loop(r.cache, r.err.exc)
                                ELSE HouseMembers(r.cache, Tail(members), id_)

\* (mutant) the entities of a house payload are validated but never cached
HouseEntities_NotCached(c, entities, id_) ==
    IF \A i \in DOMAIN entities :
            Entity_format_obj_data(("house_id" :> id_) @@ entities[i]).ok
        THEN Loop(c, "none")
        ELSE Loop(c, "InvalidPassedDataError")

\* add_or_update_house, `for entity in data['entities']`
RECURSIVE HouseEntities(_, _, _)
HouseEntities(c, entities, id_) ==
    IF entities = << >>
        THEN Loop(c, "none")
        ELSE LET f == Entity_format_obj_data(("house_id" :> id_) @@ Head(entities))
             IN  IF ~f.ok
                    THEN Loop(c, f.exc)
                    ELSE LET r == add_or_update_entity(c, f.data)
                         IN  IF r.err # NoError
                                THEN Loop(r.cache, r.err.exc)
                                ELSE HouseEntities(r.cache, Tail(entities), id_)

\* `member['house_id'] = id_` for every member of the payload
WithHouseId(members, id_) ==
    [i \in DOMAIN members |-> ("house_id" :> id_) @@ members[i]]

\* (mutant) client_member is read from the members cached before the merge
StoreHouse_StaleClientMember(c, data, id_) ==
    LET f == House_format_obj_data([data EXCEPT !.members = WithHouseId(@, id_)])
        members == IF id_ \in DOMAIN c.houses THEN c.houses[id_].members ELSE f.data.members
    IN  IF ~f.ok
            THEN Result(c, Wrapped(f.exc), EmptyDict)
        ELSE IF \/ "id" \notin DOMAIN c.client_user
                \/ c.client_user.id \notin DOMAIN f.data.members
                \/ c.client_user.id \notin DOMAIN members
            THEN Result(c, Wrapped("KeyError"), EmptyDict)
        ELSE LET stored == ("client_member" :> members[c.client_user.id]) @@ f.data
             IN  Result([c EXCEPT !.houses = MergeInto(@, id_, stored)], NoError, stored)

\* (mutant) client_member is set when the house is first cached and kept after
StoreHouse_KeepClientMember(c, data, id_) ==
    LET f == House_format_obj_data([data EXCEPT !.members = WithHouseId(@, id_)])
    IN  IF ~f.ok
            THEN Result(c, Wrapped(f.exc), EmptyDict)
        ELSE IF \/ "id" \notin DOMAIN c.client_user
                \/ c.client_user.id \notin DOMAIN f.data.members
            THEN Result(c, Wrapped("KeyError"), EmptyDict)
        ELSE LET stored == IF id_ \in DOMAIN c.houses
                              THEN f.data
                              ELSE ("client_member" :> f.data.members[c.client_user.id])
                                        @@ f.data
             IN  Result([c EXCEPT !.houses = MergeInto(@, id_, stored)], NoError, stored)

\* add_or_update_house from House.format_obj_data on: the derived client_member
\* and the merge into houses
StoreHouse(c, data, id_) ==
    LET f == House_format_obj_data([data EXCEPT !.members = WithHouseId(@, id_)])
    IN  IF ~f.ok
            THEN Result(c, Wrapped(f.exc), EmptyDict)
        ELSE IF \/ "id" \notin DOMAIN c.client_user
                \/ c.client_user.id \notin DOMAIN f.data.members
            THEN Result(c, Wrapped("KeyError"), EmptyDict)
        ELSE LET stored == ("client_member" :> f.data.members[c.client_user.id]) @@ f.data
             IN  Result([c EXCEPT !.houses = MergeInto(@, id_, stored)], NoError, stored)

\* ClientCache.add_or_update_house
add_or_update_house(c, item_data) ==
    IF ~check_if_initialised(c)
        THEN Result(c, NotInitialised, EmptyDict)
    ELSE IF {"id", "rooms"} \ DOMAIN item_data # {}
        THEN Result(c, Wrapped("KeyError"), EmptyDict)
    ELSE LET id_ == item_data.id
             r1 == HouseRooms(c, item_data.rooms, id_)
         IN  IF r1.exc # "none" THEN Result(r1.cache, Wrapped(r1.exc), EmptyDict)
             ELSE IF "members" \notin DOMAIN item_data
                THEN Result(r1.cache, Wrapped("KeyError"), EmptyDict)
             ELSE LET r2 == HouseMembers(r1.cache, item_data.members, id_)
                  IN  IF r2.exc # "none" THEN Result(r2.cache, Wrapped(r2.exc), EmptyDict)
                      ELSE IF "entities" \notin DOMAIN item_data
                        THEN Result(r2.cache, Wrapped("KeyError"), EmptyDict)
                      ELSE LET r3 == HouseEntities(r2.cache, item_data.entities, id_)
                           IN  IF r3.exc # "none"
                                THEN Result(r3.cache, Wrapped(r3.exc), EmptyDict)
                                ELSE StoreHouse(r3.cache, item_data, id_)

\* (mutant) an unknown discriminant falls through to the group partition
PrivatePartition_DefaultGroup(type) ==
    CASE type = 1 -> "private_single"
      [] OTHER    -> "private_group"

\* add_or_update_private_room's choice of partition by int(data['type'])
PrivatePartition(type) ==
    CASE type = 1 -> "private_single"
      [] type = 2 -> "private_group"
      [] OTHER    -> "none"

\* ClientCache.add_or_update_private_room.  The normalizer's return value is
\* dropped: what is stored is the payload's copy it was given.
add_or_update_private_room(c, item_data) ==
    IF ~check_if_initialised(c)
        THEN Result(c, NotInitialised, EmptyDict)
    ELSE IF {"id", "type"} \ DOMAIN item_data # {}
        THEN Result(c, Wrapped("KeyError"), EmptyDict)
    ELSE IF ~ToInt(item_data.type).ok
        THEN Result(c, Wrapped("ValueError"), EmptyDict)
    ELSE LET part == PrivatePartition(ToInt(item_data.type).n)
             f == PrivateRoom_format_obj_data(item_data)
         IN  IF part = "none"
                THEN Result(c, Wrapped("ValueError"), EmptyDict)
             ELSE IF ~f.ok
                THEN Result(c, Wrapped(f.exc), EmptyDict)
             ELSE IF part = "private_single"
                THEN Result(
                        [c EXCEPT !.private_single = MergeInto(@, item_data.id, item_data)],
                        NoError, item_data)
                ELSE Result(
                        [c EXCEPT !.private_group = MergeInto(@, item_data.id, item_data)],
                        NoError, item_data)

\* ClientCache.add_or_update_relationship
add_or_update_relationship(c, item_data) ==
    IF ~check_if_initialised(c)
        THEN Result(c, NotInitialised, EmptyDict)
    ELSE IF "user_id" \notin DOMAIN item_data
        THEN Result(c, Wrapped("KeyError"), EmptyDict)
    ELSE LET u == IF Truthy(item_data, "user")
                     THEN add_or_update_user(c, item_data.user)
                     ELSE Result(c, NoError, EmptyDict)
             f == Relationship_format_obj_data(item_data)
         IN  IF u.err # NoError
                THEN Result(u.cache, Wrapped(u.err.exc), EmptyDict)
             ELSE IF ~f.ok
                THEN Result(u.cache, Wrapped(f.exc), EmptyDict)
             ELSE Result(
                    [u.cache EXCEPT !.relationships = MergeInto(@, item_data.user_id, f.data)],
                    NoError, f.data)

\* (mutant) the close keeps the identity record
closing_cleanup_KeepsIdentity(c) == [_create_default_dict EXCEPT !.client_user = c.client_user]

\* ClientCache.closing_cleanup
closing_cleanup(c) == _create_default_dict

-----------------------------------------------------------------------------
(* The payloads the operations are called with *)

\* the id of the authenticated identity, and of one other user
AuthId == "1"
UserIds == {"1", "2"}

\* users: without and with the optional bio, without the required name, without id
UserPayloads ==
    { [id |-> i, name |-> "a"] : i \in UserIds }
        \cup { [id |-> i, name |-> "a", bio |-> "x"] : i \in UserIds }
        \cup { [id |-> "2"], [name |-> "a"] }

\* the authenticated identity as the ready payload carries it
ClientUserPayloads ==
    { p \in UserPayloads : "id" \in DOMAIN p => p.id = AuthId }

RoomPayloads ==
    { [id |-> "R1", name |-> n, house_id |-> "H1"] : n \in {"a", "b"} }
        \cup { [id |-> "R1", name |-> "a"] }

EntityBase == [id |-> "E1", name |-> "e", position |-> 0, resource_pointers |-> << >>]

\* entities: without and with the optional type; the house given as house_id, as
\* an embedded object, as a plain string, or not at all; with an unknown field
EntityPayloads ==
    { EntityBase @@ [house_id |-> "H1"] @@ t :
        t \in { EmptyDict, [type |-> 1], [type |-> 2] } }
        \cup { EntityBase @@ h :
                h \in { [house |-> [kind |-> "obj", id |-> "H1"]],
                        [house |-> [kind |-> "str", id |-> "H1"]],
                        [house_id |-> "H1", colour |-> "red"],
                        EmptyDict } }

\* private rooms: every discriminant, one that is no number, and none
PrivateRoomPayloads ==
    { [id |-> "P1", type |-> t] : t \in {"1", "2", "3", "x"} } \cup { [id |-> "P1"] }

\* relationships: both kinds, without the embedded user, without a type, and
\* with an embedded user that lacks its name
RelationshipPayloads ==
    { [user_id |-> "2", id |-> "3", type |-> t, user |-> [id |-> "2", name |-> "a"]] :
        t \in {1, 3} }
        \cup { [user_id |-> "2", id |-> "3", type |-> 3],
               [user_id |-> "2", id |-> "3", user |-> [id |-> "2", name |-> "a"]],
               [user_id |-> "2", id |-> "3", type |-> 3, user |-> [id |-> "2"]] }

MemberPayload(uid, role) == [user |-> [id |-> uid, name |-> "a"], role |-> role]

\* houses: member lists with and without the authenticated identity, embedded
\* rooms and entities, an invalid embedded entity, and a payload without entities
HousePayloads ==
    { [id |-> "H1", name |-> "h", rooms |-> r, members |-> m, entities |-> e] :
        r \in { << >>, <<[id |-> "R1", name |-> "a"]>> },
        m \in { <<MemberPayload("1", "r1")>>, <<MemberPayload("1", "r2")>>,
                <<MemberPayload("1", "r1"), MemberPayload("2", "r1")>>,
                <<MemberPayload("2", "r1")>> },
        e \in { <<EntityBase>>, <<[id |-> "E1"]>> } }
        \cup { [id |-> "H1", name |-> "h", rooms |-> << >>,
                members |-> <<MemberPayload("1", "r1")>>] }

-----------------------------------------------------------------------------
(* The cache as a state machine: any operation, with any payload, at any time *)

\* the record cached under `id` (the empty dict when there is none)
Cached(partition, id) == IF id \in DOMAIN partition THEN partition[id] ELSE EmptyDict

\* the key a payload is stored under
IdOf(p, key) == IF key \in DOMAIN p THEN p[key] ELSE "none"

InitCache ==
    /\ cache = _create_default_dict
    /\ last = [op |-> "init", err |-> NoError, before |-> EmptyDict]

\* `before` is the record the target partition held under the payload's id
\* when the operation was called
Apply(op, r, before) ==
    /\ cache' = r.cache
    /\ last' = [op |-> op, err |-> r.err, before |-> before]
    /\ UNCHANGED <<eventVars, clientVars>>

UpdateClientUser ==
    \E p \in ClientUserPayloads :
        Apply("update_client_user", update_client_user(cache, p), cache.client_user)

AddOrUpdateUser ==
    \E p \in UserPayloads :
        Apply("add_or_update_user", add_or_update_user(cache, p),
              Cached(cache.users, IdOf(p, "id")))

AddOrUpdateRoom ==
    \E p \in RoomPayloads :
        Apply("add_or_update_room", add_or_update_room(cache, p),
              Cached(cache.rooms_house, IdOf(p, "id")))

AddOrUpdateEntity ==
    \E p \in EntityPayloads :
        Apply("add_or_update_entity", add_or_update_entity(cache, p),
              Cached(cache.entities, IdOf(p, "id")))

AddOrUpdateHouse ==
    \E p \in HousePayloads :
        Apply("add_or_update_house", add_or_update_house(cache, p),
              Cached(cache.houses, IdOf(p, "id")))

AddOrUpdatePrivateRoom ==
    \E p \in PrivateRoomPayloads :
        Apply("add_or_update_private_room", add_or_update_private_room(cache, p),
              IF IdOf(p, "type") = "2"
                THEN Cached(cache.private_group, IdOf(p, "id"))
                ELSE Cached(cache.private_single, IdOf(p, "id")))

AddOrUpdateRelationship ==
    \E p \in RelationshipPayloads :
        Apply("add_or_update_relationship", add_or_update_relationship(cache, p),
              Cached(cache.relationships, IdOf(p, "user_id")))

\* `before` is the identity record the store held when it was closed
ClosingCleanup ==
    Apply("closing_cleanup", Result(closing_cleanup(cache), NoError, EmptyDict),
          cache.client_user)

NextCache ==
    \/ UpdateClientUser
    \/ AddOrUpdateUser
    \/ AddOrUpdateRoom
    \/ AddOrUpdateEntity
    \/ AddOrUpdateHouse
    \/ AddOrUpdatePrivateRoom
    \/ AddOrUpdateRelationship
    \/ ClosingCleanup

InitEvents ==
    /\ active_listeners = EmptyDict
    /\ listeners = << >>
    /\ dispatches = << >>
    /\ waiters = << >>

\* the defaults the docstring of HivenClient.__init__ gives for a heartbeat
\* and a close_timeout that are not passed
HeartbeatDefault == 30000
CloseTimeoutDefault == 40

\* Connection(self, heartbeat=heartbeat, close_timeout=close_timeout)
Connection(heartbeat, close_timeout) ==
    [ heartbeat     |-> IF heartbeat = "None" THEN HeartbeatDefault ELSE heartbeat,
      close_timeout |-> IF close_timeout = "None" THEN CloseTimeoutDefault ELSE close_timeout ]

\* HivenClient.__init__ called without arguments
\* the HivenClient's _client_user attribute: unset, or a User object built
\* on a client_user dict.  `bound` says the dict is the one the store holds
\* now; otherwise `data` is what the dict held when the store let go of it.
UserObject(set, bound, data) == [set |-> set, bound |-> bound, data |-> data]

NoUserObject == UserObject(FALSE, FALSE, EmptyDict)

InitClient ==
    /\ client = [ _token |-> "",
                  _client_user |-> NoUserObject,
                  connection |-> Connection("None", "None"),
                  call   |-> [op |-> "init", token |-> "", restart |-> FALSE,
                              connected |-> FALSE, raised |-> "none", err |-> NoError] ]
    /\ session = [state |-> "closed", token |-> "None"]
    /\ http = [ http_ready |-> FALSE,
                session    |-> "None",
                closed     |-> FALSE,
                call       |-> [op |-> "init", ready |-> FALSE, status |-> 0,
                                body |-> "none", result |-> "None"] ]

Init == InitCache /\ InitEvents /\ InitClient

SpecCache == Init /\ [][NextCache]_vars

-----------------------------------------------------------------------------
(* Properties of the cache *)

\* the store holds an authenticated identity: client_user is a non-empty record
StoreInitialised == DOMAIN cache.client_user # {}

\* the upsert `op` applied to the current cache with a payload it accepts gives
\* a cache that the same upsert with the same payload leaves as it is
IdempotentOn(op(_, _), payloads) ==
    \A p \in payloads :
        LET once == op(cache, p)
        IN  once.err = NoError =>
                LET twice == op(once.cache, p)
                IN  twice.err = NoError /\ twice.cache = once.cache

\* C1: on an initialised store, every upsert (user, house, room, entity, private
\* room, relationship) applied twice with the same valid payload leaves every
\* partition as applying it once does.
C1_IdempotentMerge ==
    StoreInitialised =>
        /\ IdempotentOn(add_or_update_user, UserPayloads)
        /\ IdempotentOn(add_or_update_house, HousePayloads)
        /\ IdempotentOn(add_or_update_room, RoomPayloads)
        /\ IdempotentOn(add_or_update_entity, EntityPayloads)
        /\ IdempotentOn(add_or_update_private_room, PrivateRoomPayloads)
        /\ IdempotentOn(add_or_update_relationship, RelationshipPayloads)

\* a house upsert has just succeeded on a house that was cached with other
\* content, and repeating one of the payloads changes nothing
C1_Witness ==
    /\ last.op = "add_or_update_house"
    /\ last.err = NoError
    /\ last.before # EmptyDict
    /\ last.before # cache.houses["H1"]
    /\ \E p \in HousePayloads :
        LET r == add_or_update_house(cache, p)
        IN  r.err = NoError /\ r.cache = cache

\* the upsert `op` refuses every payload and leaves the cache as it is
RefusedOn(op(_, _), payloads) ==
    \A p \in payloads :
        LET r == op(cache, p)
        IN  r.err = NotInitialised /\ r.cache = cache

\* C2: while the client_user record is absent or empty, every upsert fails with
\* the initialisation guard's own error (not the wrapped InitializationError of
\* a failed merge) and leaves all partitions unchanged.
C2_PreInitGuard ==
    ~StoreInitialised =>
        /\ RefusedOn(add_or_update_user, UserPayloads)
        /\ RefusedOn(add_or_update_house, HousePayloads)
        /\ RefusedOn(add_or_update_room, RoomPayloads)
        /\ RefusedOn(add_or_update_entity, EntityPayloads)
        /\ RefusedOn(add_or_update_private_room, PrivateRoomPayloads)
        /\ RefusedOn(add_or_update_relationship, RelationshipPayloads)

\* a house upsert was attempted on a store that holds no identity, and was refused
C2_Witness ==
    /\ last.op = "add_or_update_house"
    /\ last.err = NotInitialised
    /\ ~StoreInitialised
    /\ Partitions(cache) = Partitions(_create_default_dict)

\* the cache differs from `c` in the partition `part` at most
OnlyWrites(c, r, part) ==
    CASE part = "private_single" -> [r EXCEPT !.private_single = c.private_single] = c
      [] part = "private_group"  -> [r EXCEPT !.private_group = c.private_group] = c
      [] OTHER                   -> r = c

\* C3: on an initialised store a private-room upsert with type 1 writes only to
\* rooms.private.single, with type 2 only to rooms.private.group, and with any
\* other type value (or none) raises the wrapped ValueError of a malformed
\* payload and changes neither partition.
C3_DiscriminantRouting ==
    StoreInitialised =>
        \A p \in PrivateRoomPayloads :
            LET r == add_or_update_private_room(cache, p)
                t == IF "type" \in DOMAIN p THEN ToInt(p.type) ELSE [ok |-> FALSE, n |-> 0]
            IN  IF t.ok /\ t.n = 1
                    THEN /\ OnlyWrites(cache, r.cache, "private_single")
                         /\ r.err = NoError => p.id \in DOMAIN r.cache.private_single
                ELSE IF t.ok /\ t.n = 2
                    THEN /\ OnlyWrites(cache, r.cache, "private_group")
                         /\ r.err = NoError => p.id \in DOMAIN r.cache.private_group
                ELSE /\ r.err.exc = "InitializationError"
                     /\ "type" \in DOMAIN p => r.err.cause = "ValueError"
                     /\ r.cache = cache

\* a room was routed to the single partition only, and a later upsert with
\* another discriminant was rejected
C3_Witness ==
    /\ last.op = "add_or_update_private_room"
    /\ last.err = Wrapped("ValueError")
    /\ "P1" \in DOMAIN cache.private_single
    /\ "P1" \notin DOMAIN cache.private_group

\* every field of `normalized` is in `stored` with the same value
Covers(stored, normalized) ==
    \A k \in DOMAIN normalized : k \in DOMAIN stored /\ stored[k] = normalized[k]

RoomIds == {"R1"}
EntityIds == {"E1"}

\* C4: after a successful house upsert the stored house's rooms and entities
\* are lists of ids and its member records name their user by id, and the
\* rooms.house, users and entities partitions hold the normalized records of the
\* payload's embedded rooms, members' users and entities.
C4_ReferenceOnlyStorage ==
    StoreInitialised =>
        \A p \in HousePayloads :
            LET r == add_or_update_house(cache, p)
            IN  r.err = NoError =>
                    LET h == r.cache.houses[p.id]
                    IN  /\ \A i \in DOMAIN h.rooms : h.rooms[i] \in RoomIds
                        /\ \A i \in DOMAIN h.entities : h.entities[i] \in EntityIds
                        /\ \A u \in DOMAIN h.members : h.members[u].user \in UserIds
                        /\ h.rooms = SeqIds(p.rooms)
                        /\ h.entities = SeqIds(p.entities)
                        /\ DOMAIN h.members = {p.members[i].user.id : i \in DOMAIN p.members}
                        /\ \A i \in DOMAIN p.rooms :
                            /\ p.rooms[i].id \in DOMAIN r.cache.rooms_house
                            /\ Covers(r.cache.rooms_house[p.rooms[i].id],
                                      TextRoom_format_obj_data(
                                        ("house_id" :> p.id) @@ p.rooms[i]).data)
                        /\ \A i \in DOMAIN p.members :
                            /\ p.members[i].user.id \in DOMAIN r.cache.users
                            /\ Covers(r.cache.users[p.members[i].user.id],
                                      User_format_obj_data(p.members[i].user).data)
                        /\ \A i \in DOMAIN p.entities :
                            /\ p.entities[i].id \in DOMAIN r.cache.entities
                            /\ Covers(r.cache.entities[p.entities[i].id],
                                      Entity_format_obj_data(
                                        ("house_id" :> p.id) @@ p.entities[i]).data)

\* a house with an embedded room, two members and an entity has been upserted
C4_Witness ==
    /\ last.op = "add_or_update_house"
    /\ last.err = NoError
    /\ cache.houses["H1"].rooms = <<"R1">>
    /\ cache.houses["H1"].entities = <<"E1">>
    /\ DOMAIN cache.houses["H1"].members = {"1", "2"}
    /\ "R1" \in DOMAIN cache.rooms_house
    /\ "E1" \in DOMAIN cache.entities
    /\ "2" \in DOMAIN cache.users

\* the member record of user `uid` in a house payload
MemberOf(p, uid) ==
    LET i == CHOOSE i \in DOMAIN p.members : p.members[i].user.id = uid
    IN  Member_format_obj_data(("house_id" :> p.id) @@ p.members[i])

\* C5: after every successful house upsert, on a new house or on one cached with
\* another member list, houses[id].client_member is the member record that this
\* payload holds for the authenticated identity.
C5_DerivedFieldRecompute ==
    StoreInitialised =>
        \A p \in HousePayloads :
            LET r == add_or_update_house(cache, p)
            IN  r.err = NoError =>
                    /\ \E i \in DOMAIN p.members : p.members[i].user.id = cache.client_user.id
                    /\ r.cache.houses[p.id].client_member = MemberOf(p, cache.client_user.id)

\* the house was cached with one member record of the authenticated identity and
\* has been upserted again with another
C5_Witness ==
    /\ last.op = "add_or_update_house"
    /\ last.err = NoError
    /\ last.before # EmptyDict
    /\ last.before.client_member.role = "r1"
    /\ cache.houses["H1"].client_member.role = "r2"
    /\ cache.houses["H1"].members["1"].role = "r2"

\* the records of a partition after an upsert of `p`: a record cached before
\* keeps every field `p` does not carry, and the records under other ids are
\* as they were
KeepsAbsentFields(before, after, p, idkey) ==
    \A id \in DOMAIN before :
        /\ id \in DOMAIN after
        /\ IF id = IdOf(p, idkey)
            THEN \A k \in DOMAIN before[id] \ DOMAIN p :
                    k \in DOMAIN after[id] /\ after[id][k] = before[id][k]
            ELSE after[id] = before[id]

\* C6: an upsert of a payload for an id that is already cached changes only the
\* fields the payload carries: every other field of the cached record keeps its
\* value, and the records under other ids are untouched (stated for the upserts
\* of one record: user, room, entity, private room, relationship).
C6_PartialMerge ==
    StoreInitialised =>
        /\ \A p \in UserPayloads :
            LET r == add_or_update_user(cache, p)
            IN  r.err = NoError => KeepsAbsentFields(cache.users, r.cache.users, p, "id")
        /\ \A p \in RoomPayloads :
            LET r == add_or_update_room(cache, p)
            IN  r.err = NoError =>
                    KeepsAbsentFields(cache.rooms_house, r.cache.rooms_house, p, "id")
        /\ \A p \in PrivateRoomPayloads :
            LET r == add_or_update_private_room(cache, p)
            IN  r.err = NoError =>
                    /\ KeepsAbsentFields(cache.private_single, r.cache.private_single, p, "id")
                    /\ KeepsAbsentFields(cache.private_group, r.cache.private_group, p, "id")
        /\ \A p \in RelationshipPayloads :
            LET r == add_or_update_relationship(cache, p)
            IN  r.err = NoError =>
                    KeepsAbsentFields(cache.relationships, r.cache.relationships, p, "user_id")
        /\ \A p \in EntityPayloads :
            LET r == add_or_update_entity(cache, p)
            IN  r.err = NoError =>
                    KeepsAbsentFields(cache.entities, r.cache.entities, p, "id")

-----------------------------------------------------------------------------
(* The event dispatch engine (openhivenpy/events/__init__.py).              *)
(*                                                                         *)
(* asyncio runs one task at a time and switches tasks at an `await` only:  *)
(* an action below is what one task does between two suspension points.    *)
(* A listener object is its index in `listeners`; a call_listeners call is *)
(* its index in `dispatches`, with one task per listener it gathered.      *)

\* the number of calls of the engine that a behaviour makes
MaxCalls == 4

\* EVENTS.  The list's 'house_entity_update' 'relationship_update' has no comma
\* between the two literals, which Python joins into one string.
EVENTS ==
    { "init", "ready", "user_update",
      "house_join", "house_remove", "house_update", "house_delete", "house_downtime",
      "room_create", "room_update", "room_delete",
      "house_member_join", "house_member_leave", "house_member_enter",
      "house_member_exit", "house_member_update",
      "house_member_chunk", "batch_house_member_update",
      "house_entity_updaterelationship_update",
      "presence_update",
      "message_create", "message_update", "message_delete",
      "typing_start" }

\* the event names the operations are called with
EventNames == {"ready", "on_ready", "READY", "house_entity_update"}

\* event_name.replace('on_', '') on the names above
replace_on_(name) ==
    CASE name = "on_ready" -> "ready"
      [] OTHER             -> name

\* event_name.lower() on the names above
lower(name) ==
    CASE name = "READY" -> "ready"
      [] OTHER          -> name

\* the arguments an occurrence of an event carries
Args == {"x", "y"}

\* what is passed as a listener's awaitable: a coroutine function (async def),
\* nothing, or a coroutine object
Awaitables == {"coroutine_function", "None", "coroutine"}

\* what wait_for is called with: a callback, or nothing (`awaitable=None`)
Callbacks == {"coroutine_function", "None"}

\* DispatchEventListener.set_awaitable: the exception it raises, or "none"
set_awaitable(awaitable) ==
    IF awaitable = "coroutine"
        THEN "RuntimeError"
    ELSE IF awaitable = "coroutine_function"
        THEN "none"
    ELSE "RuntimeError"

\* _active_listeners.get(event_name) of a missing key or an empty list is falsy
ListenersOf(registry, event_name) ==
    IF event_name \in DOMAIN registry THEN registry[event_name] ELSE << >>

InList(list, l) == \E i \in DOMAIN list : list[i] = l

\* list.remove(l): the list without its first l
RemoveFirst(list, l) ==
    LET i == CHOOSE i \in DOMAIN list :
                list[i] = l /\ \A j \in 1..(i - 1) : list[j] # l
    IN  SubSeq(list, 1, i - 1) \o SubSeq(list, i + 1, Len(list))

\* HivenEventHandler.add_listener
add_listener(registry, event_name, l) ==
    IF ListenersOf(registry, event_name) # << >>
        THEN (event_name :> Append(registry[event_name], l)) @@ registry
        ELSE (event_name :> <<l>>) @@ registry

\* HivenEventHandler.remove_listener: the exception it raises, or "none"
remove_listener_exc(registry, event_name, l) ==
    IF ListenersOf(registry, event_name) = << >>
        THEN "KeyError"
    ELSE IF ~InList(registry[event_name], l)
        THEN "ValueError"
    ELSE "none"

remove_listener(registry, event_name, l) ==
    IF remove_listener_exc(registry, event_name, l) = "none"
        THEN (event_name :> RemoveFirst(registry[event_name], l)) @@ registry
        ELSE registry

\* add_multi_listener / add_single_listener up to the listener's construction:
\* `if self._active_listeners.get(event_name) is None: ... = []`
EnsureList(registry, event_name) ==
    IF event_name \in DOMAIN registry THEN registry ELSE (event_name :> << >>) @@ registry

\* a listener object as DispatchEventListener.__init__ and
\* SingleDispatchEventListener.__init__ leave it
NewListener(kind, event_name, awaitable) ==
    [ kind       |-> kind,
      event_name |-> event_name,
      awaitable  |-> awaitable,
      dispatched |-> FALSE,
      args       |-> "None" ]

\* add_multi_listener and add_single_listener: the registry and the listener
\* objects they leave, the exception they raise, the listener they return
\* (0 when they raise)
Registered(reg, ls, exc, l) == [registry |-> reg, listeners |-> ls, exc |-> exc, listener |-> l]

add_kind_listener(registry, ls, kind, name, awaitable) ==
    LET event_name == replace_on_(name)
    IN  IF event_name \notin EVENTS
            THEN Registered(registry, ls, "UnknownEventError", 0)
        ELSE IF set_awaitable(awaitable) # "none"
            THEN Registered(EnsureList(registry, event_name), ls, set_awaitable(awaitable), 0)
        ELSE Registered(
                add_listener(EnsureList(registry, event_name), event_name, Len(ls) + 1),
                Append(ls, NewListener(kind, event_name, awaitable)),
                "none", Len(ls) + 1)

add_multi_listener(registry, ls, name, awaitable) ==
    add_kind_listener(registry, ls, "multi", name, awaitable)

add_single_listener(registry, ls, name, awaitable) ==
    add_kind_listener(registry, ls, "single", name, awaitable)

\* what a listener's callback does when it is awaited: it returns, it raises,
\* or it awaits something itself and is resumed later
Outcomes == {"return", "raise", "suspend"}

\* what a dispatch leaves when the awaited callback has returned or raised: the
\* registry, the listener objects, the task's final state and its exception
Finished(reg, ls, state, exc) == [registry |-> reg, listeners |-> ls, state |-> state, exc |-> exc]

\* a dispatch of a persistent listener that takes the listener out of the
\* registry when its callback raises
MultiDispatch_Deregistering(registry, ls, l, outcome) ==
    IF outcome = "raise"
        THEN Finished(remove_listener(registry, ls[l].event_name, l), ls, "failed", "RuntimeError")
        ELSE Finished(registry, ls, "done", "none")

\* MultiDispatchEventListener.dispatch after `await self.awaitable(...)`
MultiDispatch(registry, ls, l, outcome) ==
    IF outcome = "raise"
        THEN Finished(registry, ls, "failed", "RuntimeError")
        ELSE Finished(registry, ls, "done", "none")

\* (mutant) a one-shot dispatch that marks the listener as fired when its
\* callback has raised
SingleDispatch_FiredOnRaise(registry, ls, l, outcome) ==
    LET fired == [ls EXCEPT ![l].dispatched = TRUE]
        exc   == remove_listener_exc(registry, ls[l].event_name, l)
    IN  IF outcome = "raise"
            THEN Finished(registry, fired, "failed", "RuntimeError")
        ELSE IF exc = "none"
            THEN Finished(remove_listener(registry, ls[l].event_name, l), fired, "done", "none")
            ELSE Finished(registry, fired, "failed", exc)

\* SingleDispatchEventListener.dispatch after `await self.awaitable(...)`: the
\* except clause raises before `_dispatched = True` and remove_listener are
\* reached; remove_listener's own exception leaves dispatch unwrapped
SingleDispatch(registry, ls, l, outcome) ==
    IF outcome = "raise"
        THEN Finished(registry, ls, "failed", "RuntimeError")
        ELSE LET fired == [ls EXCEPT ![l].dispatched = TRUE]
                 exc   == remove_listener_exc(registry, ls[l].event_name, l)
             IN  IF exc = "none"
                     THEN Finished(remove_listener(registry, ls[l].event_name, l), fired, "done", "none")
                     ELSE Finished(registry, fired, "failed", exc)

dispatch(registry, ls, l, outcome) ==
    IF ls[l].kind = "single"
        THEN SingleDispatch(registry, ls, l, outcome)
        ELSE MultiDispatch(registry, ls, l, outcome)

\* `self._args = args` of SingleDispatchEventListener.dispatch, before the
\* callback is awaited
Capture(ls, l, args) ==
    IF ls[l].kind = "single" THEN [ls EXCEPT ![l].args = args] ELSE ls

\* `tasks = [listener(*args, **kwargs) for listener in listeners]`
NewTask(l) == [listener |-> l, state |-> "pending", exc |-> "none"]

Tasks(list) == [i \in DOMAIN list |-> NewTask(list[i])]

\* (mutant) a ready queue that drops the tasks a failed gather left pending
FirstPending_DropsAfterFailure(d, t) ==
    /\ d \in DOMAIN dispatches
    /\ t \in DOMAIN dispatches[d].tasks
    /\ dispatches[d].tasks[t].state = "pending"
    /\ \A t2 \in 1..(t - 1) : dispatches[d].tasks[t2].state \notin {"pending", "failed"}
    /\ \A d2 \in 1..(d - 1) : \A t2 \in DOMAIN dispatches[d2].tasks :
            dispatches[d2].tasks[t2].state # "pending"

\* (mutant) a ready queue that hands out the pending tasks in any order
FirstPending_AnyOrder(d, t) ==
    /\ d \in DOMAIN dispatches
    /\ t \in DOMAIN dispatches[d].tasks
    /\ dispatches[d].tasks[t].state = "pending"

\* the event loop's ready queue is first in, first out: a task that was
\* created earlier takes its first step earlier
FirstPending(d, t) ==
    /\ d \in DOMAIN dispatches
    /\ t \in DOMAIN dispatches[d].tasks
    /\ dispatches[d].tasks[t].state = "pending"
    /\ \A t2 \in 1..(t - 1) : dispatches[d].tasks[t2].state # "pending"
    /\ \A d2 \in 1..(d - 1) : \A t2 \in DOMAIN dispatches[d2].tasks :
            dispatches[d2].tasks[t2].state # "pending"

-----------------------------------------------------------------------------
(* The actions of the engine.                                              *)

\* the calls made so far that left a listener, a dispatch or a failed wait_for
Calls ==
    Len(listeners) + Len(dispatches)
        + Cardinality({w \in DOMAIN waiters : waiters[w].listener = 0})

\* add_multi_listener(event_name, awaitable)
AddMultiListener ==
    /\ Calls < MaxCalls
    /\ \E name \in EventNames, awaitable \in Awaitables :
        LET r == add_multi_listener(active_listeners, listeners, name, awaitable)
        IN  /\ active_listeners' = r.registry
            /\ listeners' = r.listeners
    /\ UNCHANGED <<dispatches, waiters, cacheVars, clientVars>>

\* add_single_listener(event_name, awaitable)
AddSingleListener ==
    /\ Calls < MaxCalls
    /\ \E name \in EventNames, awaitable \in Awaitables :
        LET r == add_single_listener(active_listeners, listeners, name, awaitable)
        IN  /\ active_listeners' = r.registry
            /\ listeners' = r.listeners
    /\ UNCHANGED <<dispatches, waiters, cacheVars, clientVars>>

\* wait_for(event_name, awaitable) up to its first `await asyncio.sleep(.05)`,
\* or to the exception it raises
WaitFor ==
    /\ Calls < MaxCalls
    /\ \E name \in EventNames, awaitable \in Callbacks :
        LET r == add_single_listener(active_listeners, listeners, name, awaitable)
        IN  /\ active_listeners' = r.registry
            /\ listeners' = r.listeners
            /\ waiters' = Append(waiters,
                    [ event_name |-> replace_on_(name),
                      awaitable  |-> awaitable,
                      listener   |-> r.listener,
                      since      |-> Len(dispatches),
                      state      |-> IF r.exc = "none" THEN "polling" ELSE "raised",
                      exc        |-> r.exc,
                      result     |-> "None" ])
    /\ UNCHANGED <<dispatches, cacheVars, clientVars>>

\* wait_for's `while not listener.dispatched` loop seeing the flag set, and
\* `return listener.args, listener.kwargs`
WaitForReturn ==
    /\ \E w \in DOMAIN waiters :
        /\ waiters[w].state = "polling"
        /\ listeners[waiters[w].listener].dispatched
        /\ waiters' = [waiters EXCEPT ![w].state = "returned",
                                      ![w].result = listeners[waiters[w].listener].args]
    /\ UNCHANGED <<active_listeners, listeners, dispatches, cacheVars, clientVars>>

\* call_listeners(event_name, args, kwargs) up to `await asyncio.gather(*tasks)`,
\* or to its return when no listener is registered
CallListeners ==
    /\ Calls < MaxCalls
    /\ \E name \in EventNames, args \in Args :
        LET event_name == replace_on_(lower(name))
            list       == ListenersOf(active_listeners, event_name)
        IN  dispatches' = Append(dispatches,
                [ event_name |-> event_name,
                  args       |-> args,
                  status     |-> IF list = << >> THEN "returned" ELSE "gathering",
                  tasks      |-> Tasks(list) ])
    /\ UNCHANGED <<active_listeners, listeners, waiters, cacheVars, clientVars>>

\* asyncio.gather(*tasks) without return_exceptions: its future takes the
\* first exception of a task while the other tasks go on, and takes a result
\* when every task is done; call_listeners returns or raises with it.  The
\* callback that hands a task's exception to the future is queued behind the
\* first steps of the tasks gather created, so the future is still pending
\* while one of them has not started.
gather(status, tasks) ==
    IF status # "gathering"
        THEN status
    ELSE IF \E t \in DOMAIN tasks : tasks[t].state = "pending"
        THEN "gathering"
    ELSE IF \E t \in DOMAIN tasks : tasks[t].state = "failed"
        THEN "raised"
    ELSE IF \A t \in DOMAIN tasks : tasks[t].state = "done"
        THEN "returned"
    ELSE "gathering"

\* where a task stands once its callback has been awaited with this outcome
Step(d, t, ls, outcome) ==
    LET l     == dispatches[d].tasks[t].listener
        r     == dispatch(active_listeners, ls, l, outcome)
        tasks == IF outcome = "suspend"
                     THEN [dispatches[d].tasks EXCEPT ![t].state = "suspended"]
                     ELSE [dispatches[d].tasks EXCEPT ![t].state = r.state, ![t].exc = r.exc]
    IN  /\ active_listeners' = IF outcome = "suspend" THEN active_listeners ELSE r.registry
        /\ listeners' = IF outcome = "suspend" THEN ls ELSE r.listeners
        /\ dispatches' = [dispatches EXCEPT ![d].tasks = tasks,
                                            ![d].status = gather(@, tasks)]

\* a task's first step: listener.dispatch(*args, **kwargs) up to the first
\* suspension of the callback, or to its end
TaskStart ==
    /\ \E d \in DOMAIN dispatches : \E t \in DOMAIN dispatches[d].tasks :
        /\ FirstPending(d, t)
        /\ \E outcome \in Outcomes :
            Step(d, t, Capture(listeners, dispatches[d].tasks[t].listener, dispatches[d].args),
                 outcome)
    /\ UNCHANGED <<waiters, cacheVars, clientVars>>

\* a suspended callback is resumed and returns or raises
TaskResume ==
    /\ \E d \in DOMAIN dispatches : \E t \in DOMAIN dispatches[d].tasks :
        /\ dispatches[d].tasks[t].state = "suspended"
        /\ \E outcome \in {"return", "raise"} : Step(d, t, listeners, outcome)
    /\ UNCHANGED <<waiters, cacheVars, clientVars>>

NextEvents ==
    \/ AddMultiListener
    \/ AddSingleListener
    \/ WaitFor
    \/ WaitForReturn
    \/ CallListeners
    \/ TaskStart
    \/ TaskResume

SpecEvents == Init /\ [][NextEvents]_vars

-----------------------------------------------------------------------------
(* Properties of the event dispatch engine.                                *)

IsRegistered(l) == InList(ListenersOf(active_listeners, listeners[l].event_name), l)

TaskOf(d, t) == dispatches[d].tasks[t]

\* the tasks of dispatch d that belong to listener l
TasksFor(d, l) == {t \in DOMAIN dispatches[d].tasks : TaskOf(d, t).listener = l}

\* the dispatches of listener l's event made after dispatch d
LaterDispatches(d, l) ==
    {d2 \in (d + 1)..Len(dispatches) : dispatches[d2].event_name = listeners[l].event_name}

\* the callback of listener l raised in task t of dispatch d
CallbackRaised(d, t, kind) ==
    /\ listeners[TaskOf(d, t).listener].kind = kind
    /\ TaskOf(d, t).state = "failed"
    /\ TaskOf(d, t).exc = "RuntimeError"

\* C7: a persistent listener whose callback raised during a dispatch is still
\* in the registry, and every dispatch of its event made after the failing one
\* holds an invocation of it.
C7_PersistentListenerIsolation ==
    \A d \in DOMAIN dispatches : \A t \in DOMAIN dispatches[d].tasks :
        CallbackRaised(d, t, "multi") =>
            /\ IsRegistered(TaskOf(d, t).listener)
            /\ \A d2 \in LaterDispatches(d, TaskOf(d, t).listener) :
                    TasksFor(d2, TaskOf(d, t).listener) # {}

\* a persistent listener's callback raised in one dispatch, and a later dispatch
\* of the event has invoked it again and run it to its end
C7_Witness ==
    \E d \in DOMAIN dispatches : \E t \in DOMAIN dispatches[d].tasks :
        /\ CallbackRaised(d, t, "multi")
        /\ \E d2 \in LaterDispatches(d, TaskOf(d, t).listener) :
            \E t2 \in TasksFor(d2, TaskOf(d, t).listener) : TaskOf(d2, t2).state = "done"

\* C8: a one-shot listener whose callback raised is no longer in the registry,
\* and no dispatch of its event made after the failing one invokes it.
C8_OneShotDeregisteredOnRaise ==
    \A d \in DOMAIN dispatches : \A t \in DOMAIN dispatches[d].tasks :
        CallbackRaised(d, t, "single") =>
            /\ ~IsRegistered(TaskOf(d, t).listener)
            /\ \A d2 \in LaterDispatches(d, TaskOf(d, t).listener) :
                    \A t2 \in TasksFor(d2, TaskOf(d, t).listener) :
                        TaskOf(d2, t2).state = "pending"

\* the dispatches of the waiter's event that were made after its wait_for call
DispatchedSince(w) ==
    {d \in (waiters[w].since + 1)..Len(dispatches) :
        dispatches[d].event_name = waiters[w].event_name}

First(S) == CHOOSE d \in S : \A d2 \in S : d <= d2

\* C9: what wait_for returns is the arguments of the first dispatch of its
\* event that was made after the one-shot listener was registered.
C9_WaitForFirstOccurrence ==
    \A w \in DOMAIN waiters :
        waiters[w].state = "returned" =>
            /\ DispatchedSince(w) # {}
            /\ waiters[w].result = dispatches[First(DispatchedSince(w))].args

\* C10: wait_for called with the name of an event of the set and without a
\* callback registers a one-shot listener and does not raise.
C10_CallbackOptional ==
    \A w \in DOMAIN waiters :
        (waiters[w].awaitable = "None" /\ waiters[w].event_name \in EVENTS) =>
            /\ waiters[w].state # "raised"
            /\ waiters[w].listener \in DOMAIN listeners
            /\ listeners[waiters[w].listener].kind = "single"

\* the names of the closed event set: EVENTS with 'house_entity_update' and
\* 'relationship_update' as the two names they are
ClosedEventSet ==
    (EVENTS \ {"house_entity_updaterelationship_update"})
        \cup {"house_entity_update", "relationship_update"}

\* C11: registering a listener with a callback succeeds for every name of the
\* closed event set, with or without the on_ prefix, and fails with
\* UnknownEventError, registering nothing, for every other name.
C11_RegistrationOnClosedSet ==
    /\ \A name \in EventNames :
        /\ LET r == add_multi_listener(active_listeners, listeners, name, "coroutine_function")
           IN  IF replace_on_(name) \in ClosedEventSet
                   THEN r.exc = "none" /\ InList(ListenersOf(r.registry, replace_on_(name)), r.listener)
                   ELSE r.exc = "UnknownEventError" /\ r.registry = active_listeners
        /\ LET r == add_single_listener(active_listeners, listeners, name, "coroutine_function")
           IN  IF replace_on_(name) \in ClosedEventSet
                   THEN r.exc = "none" /\ InList(ListenersOf(r.registry, replace_on_(name)), r.listener)
                   ELSE r.exc = "UnknownEventError" /\ r.registry = active_listeners
    /\ \A w \in DOMAIN waiters :
        waiters[w].awaitable = "coroutine_function" =>
            IF waiters[w].event_name \in ClosedEventSet
                THEN waiters[w].exc = "none" /\ waiters[w].listener \in DOMAIN listeners
                ELSE waiters[w].exc = "UnknownEventError" /\ waiters[w].listener = 0

\* call_listeners of dispatch d has returned or raised to its caller
Completed(d) == dispatches[d].status \in {"returned", "raised"}

\* C12: when call_listeners has returned or raised, every invocation it
\* gathered has been started and has finished or failed; none is still running.
C12_DispatchCompletesAfterAll ==
    \A d \in DOMAIN dispatches :
        Completed(d) =>
            \A t \in DOMAIN dispatches[d].tasks : TaskOf(d, t).state \in {"done", "failed"}

-----------------------------------------------------------------------------
(* The client (openhivenpy/client/hivenclient.py): connect and run.        *)
(*                                                                         *)
(* The gateway Connection is not part of the source at hand: what          *)
(* `await self.connection.connect(restart=restart)` does is its outcome,   *)
(* a return or an exception.                                               *)

\* USER_TOKEN_LEN and BOT_TOKEN_LEN are read from the environment; they stand
\* for two different lengths
USER_TOKEN_LEN == "USER_TOKEN_LEN"
BOT_TOKEN_LEN == "BOT_TOKEN_LEN"

\* the tokens connect and run are called with: None, the empty string, a
\* string of each accepted length and strings of two other lengths
Tokens == {"None", "", "user-token", "bot-token", "short", "long"}

\* len(token)
len(token) ==
    CASE token = "user-token" -> USER_TOKEN_LEN
      [] token = "bot-token"  -> BOT_TOKEN_LEN
      [] token = "short"      -> "shorter"
      [] token = "long"       -> "longer"
      [] OTHER                -> "zero"

\* (mutant) only the missing token is refused
TokenRejected_EmptyOnly(token) == token = "None" \/ token = ""

\* connect's `if token is None or token == "": ... elif len(token) not in (...)`
TokenRejected(token) ==
    IF token = "None" \/ token = ""
        THEN TRUE
        ELSE len(token) \notin {USER_TOKEN_LEN, BOT_TOKEN_LEN}

\* what connection.connect does: it returns, or it raises
ConnectionOutcomes ==
    { "none", "KeyboardInterrupt", "InvalidTokenError", "WebSocketFailedError",
      "SessionCreateError", "TimeoutError" }

\* the except clauses of connect and of run
Reraised == {"InvalidTokenError", "WebSocketFailedError", "SessionCreateError"}

Except(e) ==
    IF e.exc = "none" \/ e.exc = "KeyboardInterrupt"
        THEN NoError
    ELSE IF e.exc \in Reraised
        THEN e
    ELSE [exc |-> "HivenConnectionError", cause |-> e.exc]

\* HivenClient.token
HivenClient_token(c) == c.token

\* HivenClient.connect: the store and the _token it leaves, whether
\* connection.connect was invoked, and the exception that reaches the caller
Connected(c, token, connected, err) ==
    [cache |-> c, _token |-> token, connected |-> connected, err |-> err]

\* (mutant) connect keeps the token in _token only
connect_TokenNotStored(c, token, outcome) ==
    IF TokenRejected(token)
        THEN Connected(c, token, FALSE, Except(Raised("InvalidTokenError")))
        ELSE Connected(c, token, TRUE, Except(Raised(outcome)))

connect(c, token, outcome) ==
    LET stored == [c EXCEPT !.token = token]
    IN  IF TokenRejected(token)
            THEN Connected(stored, token, FALSE, Except(Raised("InvalidTokenError")))
            ELSE Connected(stored, token, TRUE, Except(Raised(outcome)))

\* HivenClient.run: `loop` is what asyncio.get_event_loop() does when no loop
\* was passed
run(c, _token, token, loop, outcome) ==
    IF loop # "none"
        THEN Connected(c, _token, FALSE, Except(Raised(loop)))
        ELSE LET r == connect(c, token, outcome)
             IN  Connected(r.cache, r._token, r.connected, Except(r.err))

Call(op, token, restart, outcome, r) ==
    /\ cache' = r.cache
    /\ client' = [client EXCEPT
                    !._token = r._token,
                    !.call   = [op |-> op, token |-> token, restart |-> restart,
                                connected |-> r.connected,
                                raised |-> IF r.connected THEN outcome ELSE "none",
                                err |-> r.err] ]
    /\ UNCHANGED <<last, eventVars, session, http>>

Connect ==
    \E token \in Tokens, restart \in BOOLEAN, outcome \in ConnectionOutcomes :
        Call("connect", token, restart, outcome, connect(cache, token, outcome))

Run ==
    \E token \in Tokens, restart \in BOOLEAN, outcome \in ConnectionOutcomes :
        \E loop \in {"none", "RuntimeError"} :
            Call("run", token, restart, outcome, run(cache, client._token, token, loop, outcome))

\* closing_cleanup's `self['client_user'] = {}` puts a new dict into the store;
\* a User object built on the old dict keeps the old dict
KeepsOldDict(obj, c) ==
    IF obj.set /\ obj.bound THEN UserObject(TRUE, FALSE, c.client_user) ELSE obj

\* HivenClient.close ends the session; the store is cleaned up, the client's
\* _client_user attribute is not touched
Close ==
    /\ cache' = closing_cleanup(cache)
    /\ session' = [session EXCEPT !.state = "closed"]
    /\ client' = [client EXCEPT !._client_user = KeepsOldDict(@, cache)]
    /\ UNCHANGED <<last, eventVars, http>>

\* HivenClient._init_client_user
_init_client_user(c) == UserObject(TRUE, TRUE, EmptyDict)

\* the HivenClient.client_user property: the _client_user attribute it leaves
\* and the object it returns
client_user(cl, c) ==
    IF ~cl._client_user.set
        THEN IF DOMAIN c.client_user # {}
                THEN [_client_user |-> _init_client_user(c), value |-> _init_client_user(c)]
                ELSE [_client_user |-> cl._client_user, value |-> NoUserObject]
        ELSE [_client_user |-> cl._client_user, value |-> cl._client_user]

\* what a User object shows: the content of the dict it was built on
Viewed(obj, c) == IF obj.bound THEN c.client_user ELSE obj.data

\* a read of client.client_user
ClientUser ==
    /\ client' = [client EXCEPT !._client_user = client_user(client, cache)._client_user]
    /\ UNCHANGED <<cache, last, eventVars, session, http>>

NextClient ==
    \/ Connect
    \/ Run
    \/ Close

SpecClient == Init /\ [][NextClient]_vars

-----------------------------------------------------------------------------
(* Properties of the client.                                               *)

\* a token that is None, empty, or of neither accepted length
InvalidToken(token) ==
    \/ token \in {"None", ""}
    \/ len(token) # USER_TOKEN_LEN /\ len(token) # BOT_TOKEN_LEN

\* C13: a connect call with a token that is None, empty or of neither accepted
\* length is rejected with InvalidTokenError, and connection.connect is not
\* invoked in a call (connect or run) with such a token.
C13_CredentialCheckBeforeNetwork ==
    InvalidToken(client.call.token) /\ client.call.op # "init" =>
        /\ ~client.call.connected
        /\ client.call.op = "connect" => client.call.err = Raised("InvalidTokenError")

\* connect was called with a token of a wrong length and rejected it
C13_Witness ==
    /\ client.call.op = "connect"
    /\ client.call.token = "short"
    /\ client.call.err = Raised("InvalidTokenError")
    /\ ~client.call.connected

\* C14: what connection.connect raises reaches the caller of connect and of
\* run unchanged when it is InvalidTokenError, WebSocketFailedError or
\* SessionCreateError, and as HivenConnectionError with the failure as its
\* cause when it is anything else.
C14_ErrorPropagation ==
    client.call.connected /\ client.call.raised \notin {"none", "KeyboardInterrupt"} =>
        IF client.call.raised \in Reraised
            THEN client.call.err = Raised(client.call.raised)
            ELSE client.call.err = [exc |-> "HivenConnectionError", cause |-> client.call.raised]

-----------------------------------------------------------------------------
(* Object identity of what the cache hands out.                            *)

\* `self['users'][id_] = data ... return data`: on the insert branch the
\* returned dict is the object that was stored; on the other branch
\* `self['users'][id_].update(data)` copied its items into the stored object
ReturnsStored(partition, id_) == id_ \notin DOMAIN partition

\* the partition after the caller did `returned[key] = value` on the value an
\* upsert of `id_` returned; `before` is the partition the upsert found
SetItemOfReturned(before, after, id_, key, value) ==
    IF ReturnsStored(before, id_) /\ id_ \in DOMAIN after
        THEN [after EXCEPT ![id_] = (key :> value) @@ @]
        ELSE after

\* C15: setting a field of the record an upsert returned does not change the
\* store, for a newly inserted id as for an updated one.
C15_ReturnedRecordIsCopy ==
    StoreInitialised =>
        /\ \A p \in UserPayloads :
            LET r == add_or_update_user(cache, p)
            IN  r.err = NoError =>
                    SetItemOfReturned(cache.users, r.cache.users, p.id, "name", "changed")
                        = r.cache.users
        /\ \A p \in PrivateRoomPayloads :
            LET r == add_or_update_private_room(cache, p)
            IN  r.err = NoError =>
                    /\ SetItemOfReturned(cache.private_single, r.cache.private_single,
                                         p.id, "name", "changed") = r.cache.private_single
                    /\ SetItemOfReturned(cache.private_group, r.cache.private_group,
                                         p.id, "name", "changed") = r.cache.private_group

-----------------------------------------------------------------------------
(* The find_* accessors of the client (hivenclient.py:328-553).            *)

\* the fields of a cached record whose value is a list or a dict
MutableFields == {"resource_pointers", "rooms", "entities", "members", "client_member"}

NotFound == [found |-> FALSE, data |-> EmptyDict, shared |-> {}]

\* `raw_data = partition.get(id); if raw_data: return dict(raw_data)`: dict()
\* makes a new dict of the same items, so a value that is itself a list or a
\* dict is the object the cached record holds
find(partition, id) ==
    IF id \in DOMAIN partition /\ partition[id] # EmptyDict
        THEN [ found  |-> TRUE,
               data   |-> partition[id],
               shared |-> DOMAIN partition[id] \cap MutableFields ]
        ELSE NotFound

find_user(c, user_id) == find(c.users, user_id)
find_house(c, house_id) == find(c.houses, house_id)
find_entity(c, entity_id) == find(c.entities, entity_id)
find_room(c, room_id) == find(c.rooms_house, room_id)
find_private_room(c, room_id) == find(c.private_single, room_id)
find_private_group_room(c, room_id) == find(c.private_group, room_id)
find_relationship(c, user_id) == find(c.relationships, user_id)

\* the partition after the caller did `found[key] = value` on a found record
SetItemOfFound(partition, id, found, key, value) == partition

\* a list after list.append, a dict after an item assignment
Changed(value, key) ==
    IF key \in {"members", "client_member"}
        THEN ("changed" :> "changed") @@ value
        ELSE Append(value, "changed")

\* the partition after the caller changed the list or dict `found[key]` in
\* place
ChangeNestedOfFound(partition, id, found, key) ==
    IF key \in found.shared
        THEN [partition EXCEPT ![id][key] = Changed(@, key)]
        ELSE partition

\* changes to a found record, at its top level and inside each of its list and
\* dict values, leave the partition as it is
Detached(partition, id, found) ==
    found.found =>
        \A key \in DOMAIN found.data :
            /\ SetItemOfFound(partition, id, found, key, "changed") = partition
            /\ key \in MutableFields =>
                    ChangeNestedOfFound(partition, id, found, key) = partition

\* C16: what a find_* accessor returns is detached from the store: changing
\* the returned record, its nested lists and mappings included, does not
\* change the store.
C16_FindReturnsDetachedCopy ==
    /\ \A id \in DOMAIN cache.users : Detached(cache.users, id, find_user(cache, id))
    /\ \A id \in DOMAIN cache.houses : Detached(cache.houses, id, find_house(cache, id))
    /\ \A id \in DOMAIN cache.entities : Detached(cache.entities, id, find_entity(cache, id))
    /\ \A id \in DOMAIN cache.rooms_house : Detached(cache.rooms_house, id, find_room(cache, id))
    /\ \A id \in DOMAIN cache.private_single :
            Detached(cache.private_single, id, find_private_room(cache, id))
    /\ \A id \in DOMAIN cache.private_group :
            Detached(cache.private_group, id, find_private_group_room(cache, id))
    /\ \A id \in DOMAIN cache.relationships :
            Detached(cache.relationships, id, find_relationship(cache, id))

-----------------------------------------------------------------------------
(* Session state: ClientCache.update_primary_data (cache.py:87-108).       *)

\* data.get(key, default)
Get(data, key, default) == IF key \in DOMAIN data THEN data[key] ELSE default

\* update_primary_data, `for r in data.get('private_rooms', [])`
RECURSIVE PrimaryPrivateRooms(_, _)
PrimaryPrivateRooms(c, rooms) ==
    IF rooms = << >>
        THEN Result(c, NoError, EmptyDict)
        ELSE LET r == add_or_update_private_room(c, Head(rooms))
             IN  IF r.err # NoError
                    THEN Result(r.cache, r.err, EmptyDict)
                    ELSE PrimaryPrivateRooms(r.cache, Tail(rooms))

\* update_primary_data, `for key, data in data.get('relationships', []).items()`;
\* the payload's mapping is the list of its values in their order
RECURSIVE PrimaryRelationships(_, _)
PrimaryRelationships(c, relationships) ==
    IF relationships = << >>
        THEN Result(c, NoError, EmptyDict)
        ELSE LET r == add_or_update_relationship(c, Head(relationships))
             IN  IF r.err # NoError
                    THEN Result(r.cache, r.err, EmptyDict)
                    ELSE PrimaryRelationships(r.cache, Tail(relationships))

\* (mutant) the four are merged into what the store holds
SessionState_Merged(c, data) ==
    [c EXCEPT !.house_memberships = Merge(@, Get(data, "house_memberships", EmptyDict)),
              !.house_ids         = @ \o Get(data, "house_ids", << >>),
              !.settings          = Merge(@, Get(data, "settings", EmptyDict)),
              !.read_state        = Merge(@, Get(data, "read_state", EmptyDict))]

\* the four assignments update_primary_data starts with
SessionState(c, data) ==
    [c EXCEPT !.house_memberships = Get(data, "house_memberships", EmptyDict),
              !.house_ids         = Get(data, "house_ids", << >>),
              !.settings          = Get(data, "settings", EmptyDict),
              !.read_state        = Get(data, "read_state", EmptyDict)]

\* (mutant) the identity is established after the nested upserts
update_primary_data_UserLast(c, item_data) ==
    LET c1 == SessionState(c, item_data)
        p  == PrimaryPrivateRooms(c1, Get(item_data, "private_rooms", << >>))
        r  == IF p.err # NoError \/ "relationships" \notin DOMAIN item_data
                  THEN p
                  ELSE PrimaryRelationships(p.cache, item_data.relationships)
    IN  IF p.err # NoError
            THEN Result(p.cache, p.err, EmptyDict)
        ELSE IF "relationships" \notin DOMAIN item_data
            THEN Result(p.cache, Raised("AttributeError"), EmptyDict)
        ELSE IF r.err # NoError
            THEN Result(r.cache, r.err, EmptyDict)
        ELSE IF "user" \in DOMAIN item_data
            THEN update_client_user(r.cache, item_data.user)
            ELSE Result(r.cache, Raised("InvalidPassedDataError"), EmptyDict)

\* ClientCache.update_primary_data.  Without 'user' the normalizer is handed
\* None; without 'relationships' the default [] has no items().
update_primary_data(c, item_data) ==
    LET c1 == SessionState(c, item_data)
        u  == IF "user" \in DOMAIN item_data
                  THEN update_client_user(c1, item_data.user)
                  ELSE Result(c1, Raised("InvalidPassedDataError"), EmptyDict)
        p  == PrimaryPrivateRooms(u.cache, Get(item_data, "private_rooms", << >>))
    IN  IF u.err # NoError
            THEN Result(u.cache, u.err, EmptyDict)
        ELSE IF p.err # NoError
            THEN Result(p.cache, p.err, EmptyDict)
        ELSE IF "relationships" \notin DOMAIN item_data
            THEN Result(p.cache, Raised("AttributeError"), EmptyDict)
        ELSE PrimaryRelationships(p.cache, item_data.relationships)

\* the embedded records of a ready payload
PrimaryUser == [id |-> AuthId, name |-> "a"]
PrimaryPrivateRoom == [id |-> "P1", type |-> "1"]
PrimaryRelationship == [user_id |-> "2", id |-> "3", type |-> 3,
                        user |-> [id |-> "2", name |-> "a"]]

\* two values of the four session-scoped fields that share no key or element
SessionStateA ==
    [house_memberships |-> [H1 |-> "m1"], house_ids |-> <<"H1">>,
     settings |-> [theme |-> "dark"], read_state |-> [R1 |-> "1"]]
SessionStateB ==
    [house_memberships |-> [H2 |-> "m2"], house_ids |-> <<"H2">>,
     settings |-> [lang |-> "en"], read_state |-> [R2 |-> "2"]]

PrimaryBase ==
    [user |-> PrimaryUser, private_rooms |-> <<PrimaryPrivateRoom>>,
     relationships |-> <<PrimaryRelationship>>]

\* ready payloads: with either value of the session-scoped fields, with none
\* or only one of them, with another bio of the identity, without the user,
\* the private rooms or the relationships, and with an invalid private room
PrimaryDataPayloads ==
    { SessionStateA @@ PrimaryBase,
      SessionStateB @@ PrimaryBase,
      PrimaryBase,
      [settings |-> [lang |-> "en"]] @@ PrimaryBase,
      [user |-> [id |-> AuthId, name |-> "b", bio |-> "x"]] @@ SessionStateA @@ PrimaryBase,
      Remove(SessionStateA @@ PrimaryBase, "user"),
      Remove(SessionStateB @@ PrimaryBase, "private_rooms"),
      Remove(SessionStateA @@ PrimaryBase, "relationships"),
      [private_rooms |-> <<[id |-> "P1", type |-> "x"]>>] @@ SessionStateB @@ PrimaryBase }

\* `before` is the whole store the call found
UpdatePrimaryData ==
    \E p \in PrimaryDataPayloads :
        /\ cache' = update_primary_data(cache, p).cache
        /\ last' = [op |-> "update_primary_data", err |-> update_primary_data(cache, p).err,
                    before |-> cache, data |-> p]
        /\ UNCHANGED <<eventVars, clientVars>>

\* the session: ready payloads, user and relationship upserts, and close
NextSession ==
    \/ UpdatePrimaryData
    \/ UpdateClientUser
    \/ AddOrUpdateUser
    \/ AddOrUpdateRelationship
    \/ ClosingCleanup

SpecSession == Init /\ [][NextSession]_vars

-----------------------------------------------------------------------------
(* Properties of the session state *)

\* C17: on an initialised store the singleton client_user record and the
\* users record under the identity's id hold the same field values, after
\* any sequence of user upserts and session-state replacements.
C17_IdentityConsistency ==
    check_if_initialised(cache) =>
        /\ "id" \in DOMAIN cache.client_user
        /\ cache.client_user.id \in DOMAIN cache.users
        /\ cache.users[cache.client_user.id] = cache.client_user

\* a user upsert under the identity's id has changed the singleton record
C17_Witness ==
    /\ last.op = "add_or_update_user"
    /\ last.err = NoError
    /\ "id" \in DOMAIN cache.client_user
    /\ last.before # cache.client_user
    /\ Cached(cache.users, cache.client_user.id) = cache.client_user
    /\ "bio" \in DOMAIN cache.client_user

\* the session-scoped mappings and what each is when the payload omits it
SessionMappings == {"house_memberships", "settings", "read_state"}

\* C18: after update_primary_data each of house_memberships, house_ids,
\* settings and read_state holds exactly the payload's value, the empty one
\* when the payload omits it, and no key or element of the value the store
\* held before survives unless the payload carries it.
C18_SessionStateReplacedWholesale ==
    last.op = "update_primary_data" =>
        /\ \A f \in SessionMappings :
            /\ cache[f] = Get(last.data, f, EmptyDict)
            /\ \A k \in DOMAIN last.before[f] \cap DOMAIN cache[f] :
                    f \in DOMAIN last.data /\ k \in DOMAIN last.data[f]
        /\ cache.house_ids = Get(last.data, "house_ids", << >>)
        /\ \A i \in DOMAIN last.before.house_ids :
                (\E j \in DOMAIN cache.house_ids :
                        cache.house_ids[j] = last.before.house_ids[i])
                    => /\ "house_ids" \in DOMAIN last.data
                       /\ \E j \in DOMAIN last.data.house_ids :
                            last.data.house_ids[j] = last.before.house_ids[i]

\* a ready payload has replaced session state that held other keys: by its own
\* values, and by the empty ones for what it omits
C18_Witness ==
    /\ last.op = "update_primary_data"
    /\ last.err = NoError
    /\ last.before.house_ids = <<"H1">>
    /\ last.before.house_memberships = [H1 |-> "m1"]
    /\ last.before.read_state = [R1 |-> "1"]
    /\ last.before.settings = [theme |-> "dark"]
    /\ cache.settings = [lang |-> "en"]
    /\ cache.house_ids = << >>
    /\ cache.read_state = EmptyDict
    /\ cache.house_memberships = EmptyDict

\* every entity partition and every session-scoped partition of `c` is empty
\* and it holds no identity
EmptyStore(c) ==
    /\ c.client_user = EmptyDict
    /\ \A part \in {"houses", "users", "rooms_house", "private_single", "private_group",
                    "entities", "relationships", "house_memberships", "settings",
                    "read_state"} : c[part] = EmptyDict
    /\ c.house_ids = << >>

\* C19: the store is empty when it is created, and closing_cleanup resets it
\* to that same empty state, so that every upsert after the close and before
\* the next ready payload fails with the initialisation guard's error.
C19_StoreLifecycle ==
    last.op \in {"init", "closing_cleanup"} =>
        /\ EmptyStore(cache)
        /\ cache = _create_default_dict
        /\ \A p \in UserPayloads : add_or_update_user(cache, p).err = NotInitialised
        /\ \A p \in HousePayloads : add_or_update_house(cache, p).err = NotInitialised
        /\ \A p \in RoomPayloads : add_or_update_room(cache, p).err = NotInitialised
        /\ \A p \in EntityPayloads : add_or_update_entity(cache, p).err = NotInitialised
        /\ \A p \in PrivateRoomPayloads :
                add_or_update_private_room(cache, p).err = NotInitialised
        /\ \A p \in RelationshipPayloads :
                add_or_update_relationship(cache, p).err = NotInitialised

\* a session that held an identity, users and session state has been closed
C19_Witness ==
    /\ last.op = "closing_cleanup"
    /\ last.before = [id |-> AuthId, name |-> "b", bio |-> "x"]
    /\ EmptyStore(cache)

-----------------------------------------------------------------------------
(* Properties of the upserts' error handling *)

\* every failure of the upsert `op` on the current cache is an
\* InitializationError whose cause is the error that started the failure
FailsWrappedOn(op(_, _), payloads) ==
    \A p \in payloads :
        LET r == op(cache, p)
        IN  \/ r.err = NoError
            \/ /\ r.err.exc = "InitializationError"
               /\ r.err.cause \notin {"none", "InitializationError"}

\* C20: on an initialised store every failure inside an upsert (a missing
\* required field, an unexpected discriminant, an invalid sub-entity) reaches
\* the caller as InitializationError whose cause is the originating error,
\* and no other error type leaves the upsert.
C20_FailureWrappedWithCause ==
    StoreInitialised =>
        /\ FailsWrappedOn(add_or_update_user, UserPayloads)
        /\ FailsWrappedOn(add_or_update_house, HousePayloads)
        /\ FailsWrappedOn(add_or_update_room, RoomPayloads)
        /\ FailsWrappedOn(add_or_update_entity, EntityPayloads)
        /\ FailsWrappedOn(add_or_update_private_room, PrivateRoomPayloads)
        /\ FailsWrappedOn(add_or_update_relationship, RelationshipPayloads)

-----------------------------------------------------------------------------
(* Properties of the registry *)

\* C21: remove_listener of a listener that is not registered for its event
\* raises KeyError in every registry state, whether the event's list is
\* empty or holds other listeners, and leaves the registry as it is.
C21_RemoveUnregisteredIsKeyError ==
    \A l \in DOMAIN listeners :
        ~IsRegistered(l) =>
            /\ remove_listener_exc(active_listeners, listeners[l].event_name, l) = "KeyError"
            /\ remove_listener(active_listeners, listeners[l].event_name, l) = active_listeners

-----------------------------------------------------------------------------
(* The engine under asyncio's scheduling: a task that is ready runs, a      *)
(* suspended callback is resumed, and wait_for's 0.05 s poll comes round.   *)

SpecEventsLive ==
    /\ Init
    /\ [][NextEvents]_vars
    /\ WF_vars(TaskStart)
    /\ WF_vars(TaskResume)
    /\ WF_vars(WaitForReturn)

\* the callback given to wait_for call w raised when its event was dispatched
WaiterCallbackRaised(w) ==
    /\ w \in DOMAIN waiters
    /\ waiters[w].listener # 0
    /\ \E d \in DOMAIN dispatches : \E t \in DOMAIN dispatches[d].tasks :
        /\ TaskOf(d, t).listener = waiters[w].listener
        /\ CallbackRaised(d, t, "single")

\* wait_for call w has ended by raising
WaiterRaised(w) == w \in DOMAIN waiters /\ waiters[w].state = "raised"

\* C22: when the callback given to wait_for raises as the awaited event is
\* dispatched, the suspended wait_for ends by raising the wrapped failure.
C22_WaiterGetsCallbackFailure ==
    \A w \in 1..MaxCalls : WaiterCallbackRaised(w) ~> WaiterRaised(w)

-----------------------------------------------------------------------------
(* The session a connect call opens.  connect is suspended in              *)
(* `await self.connection.connect(restart=restart)` while the gateway      *)
(* applies the payloads it receives to the store and dispatches the init   *)
(* and ready events; close ends the session.                               *)

\* connect or run called with an accepted token, up to the await
OpenSession ==
    /\ session.state = "closed"
    /\ \E token \in Tokens :
        LET r == connect(cache, token, "none")
        IN  /\ r.connected
            /\ cache' = r.cache
            /\ client' = [client EXCEPT !._token = r._token]
            /\ session' = [state |-> "open", token |-> token]
    /\ UNCHANGED <<last, eventVars, http>>

\* what the gateway does to the store while the session is open
SessionUpdate ==
    /\ session.state = "open"
    /\ \/ UpdatePrimaryData
       \/ AddOrUpdateUser
       \/ AddOrUpdateRelationship

\* close() while the session is open
CloseSession == session.state = "open" /\ Close

NextGateway ==
    \/ OpenSession
    \/ SessionUpdate
    \/ CloseSession

SpecGateway == Init /\ [][NextGateway]_vars

-----------------------------------------------------------------------------
(* Properties of the session *)

C24_ConnectionDefaults ==
    /\ client.connection.heartbeat = 30000
    /\ client.connection.close_timeout = 60

-----------------------------------------------------------------------------
(* Properties of the order of dispatch.  The inbound loop hands each frame  *)
(* to call_listeners in the order of receipt, so `dispatches` is in the     *)
(* order of the frames.                                                     *)

\* the invocation t of dispatch d has taken its first step
Started(d, t) == TaskOf(d, t).state # "pending"

-----------------------------------------------------------------------------
(* HivenEventHandler.dispatch_event (events/__init__.py:243-251).  The      *)
(* method consists of its docstring: it returns None at once and leaves     *)
(* the handler as it is.                                                    *)

\* the call as it is recorded: the listeners registered for the event when
\* it was made, and the invocations it created
dispatch_event(registry, event_name, args) ==
    [ call       |-> "dispatch_event",
      event_name |-> event_name,
      args       |-> args,
      registered |-> ListenersOf(registry, event_name),
      status     |-> "returned",
      tasks      |-> << >> ]

DispatchEvent ==
    /\ Calls < MaxCalls
    /\ \E name \in EventNames, args \in Args :
        dispatches' = Append(dispatches, dispatch_event(active_listeners, name, args))
    /\ UNCHANGED <<active_listeners, listeners, waiters, cacheVars, clientVars>>

\* registrations and manual dispatches
NextManual ==
    \/ AddMultiListener
    \/ AddSingleListener
    \/ DispatchEvent

SpecManual == Init /\ [][NextManual]_vars

\* C26: dispatch_event(event_name, args, kwargs) triggers every listener
\* registered for event_name with the given arguments, and returns at once
\* without being awaited.
C26_DispatchEventTriggersListeners ==
    \A d \in DOMAIN dispatches :
        dispatches[d].call = "dispatch_event" =>
            /\ dispatches[d].status = "returned"
            /\ \A i \in DOMAIN dispatches[d].registered :
                \E t \in DOMAIN dispatches[d].tasks :
                    dispatches[d].tasks[t].listener = dispatches[d].registered[i]

-----------------------------------------------------------------------------
(* The REST layer: HTTPClient (openhivenpy/gateway/http.py).  A response    *)
(* is its status and the kind of its body.                                  *)

\* the statuses a response carries
Statuses == {200, 201, 202, 204, 400, 404, 500}

\* the bodies: a JSON object without and with an "error" entry, and a body
\* that `await r.json()` cannot decode (an empty one, as with 204 No Content)
Bodies == {"object", "error", "not_json"}

Verbs == {"request", "post", "put", "patch", "delete", "options"}

\* raw_request, `r.status == 200 or r.status == 202 or r.status == 204`
Successful(status) == status \in {200, 202, 204}

\* HTTPClient.raw_request: the ClientResponse, None, or the exception of its
\* last except clause
raw_request(http_ready, status, body) ==
    IF ~http_ready
        THEN "None"
    ELSE IF body = "not_json"
        THEN "raise"
    ELSE IF Successful(status)
        THEN IF body # "error" THEN "response" ELSE "None"
    ELSE "None"

\* HTTPClient.request: the decoded body of the response, or None
request(http_ready, status, body) ==
    LET response == raw_request(http_ready, status, body)
    IN  IF response = "response" THEN "json" ELSE response

\* request, post, put, patch, delete, options
Verb(verb, http_ready, status, body) ==
    IF verb = "request"
        THEN request(http_ready, status, body)
        ELSE raw_request(http_ready, status, body)

\* a call of one of the verbs, answered by some response
HTTPRequest ==
    /\ \E verb \in Verbs, status \in Statuses, body \in Bodies :
        http' = [http EXCEPT !.call =
                    [op |-> verb, ready |-> http.http_ready, status |-> status,
                     body |-> body, result |-> Verb(verb, http.http_ready, status, body)]]
    /\ UNCHANGED <<cacheVars, eventVars, client, session>>

\* HTTPClient.connect: a session, http_ready, and GET /users/@me; when the
\* request gives no response or raises, http_ready is cleared and connect raises
HTTPConnect ==
    /\ \E status \in Statuses, body \in Bodies :
        LET response == raw_request(TRUE, status, body)
        IN  http' = [ http_ready |-> response = "response",
                      session    |-> "open",
                      closed     |-> FALSE,
                      call       |-> [op |-> "connect", ready |-> TRUE, status |-> status,
                                      body |-> body,
                                      result |-> IF response = "response"
                                                    THEN "json" ELSE "raise"] ]
    /\ UNCHANGED <<cacheVars, eventVars, client, session>>

\* HTTPClient.close: `await self.session.close()` then http_ready = False; an
\* exception of the first (there is no session, or its close fails) is logged
\* and leaves http_ready as it is
HTTPClose ==
    /\ \E closes \in BOOLEAN :
        IF http.session = "open" /\ closes
            THEN http' = [ http_ready |-> FALSE,
                           session    |-> "closed",
                           closed     |-> TRUE,
                           call       |-> [op |-> "close", ready |-> http.http_ready,
                                           status |-> 0, body |-> "none", result |-> "None"] ]
            ELSE http' = [http EXCEPT !.closed = TRUE, !.call =
                            [op |-> "close", ready |-> http.http_ready,
                             status |-> 0, body |-> "none", result |-> "None"]]
    /\ UNCHANGED <<cacheVars, eventVars, client, session>>

NextHTTP ==
    \/ HTTPConnect
    \/ HTTPRequest
    \/ HTTPClose

SpecHTTP == Init /\ [][NextHTTP]_vars

-----------------------------------------------------------------------------
(* Properties of the REST layer *)

\* the last call was a verb and the server answered it
Answered == http.call.op \in Verbs /\ http.call.ready

\* C27: a REST call returns None exactly when the response's status is not
\* 2xx or its body carries an "error" entry; for every 2xx response without
\* one it returns the response (request: the decoded body).
C27_NoResultExactlyOnFailure ==
    Answered =>
        LET failure == http.call.status \div 100 # 2 \/ http.call.body = "error"
        IN  /\ http.call.result = "None" <=> failure
            /\ ~failure => http.call.result = (IF http.call.op = "request"
                                                    THEN "json" ELSE "response")

-----------------------------------------------------------------------------
(* Properties of the normalizers *)

\* a payload with a field no schema names
WithUnknownField(p) == ("colour" :> "red") @@ p

\* a command context as the gateway passes it
ContextPayload == [room |-> [id |-> "R1"], author |-> [id |-> "2"], timestamp |-> 1]

\* the upsert `op` accepts no payload of `payloads` once a field no schema
\* names is added to it
UnknownFieldRejectedBy(op(_, _), payloads) ==
    \A p \in payloads :
        op(cache, p).err = NoError => op(cache, WithUnknownField(p)).err # NoError

\* C28: the normalizer of every kind (Entity, Relationship, Context) rejects
\* a payload that carries a field its schema does not name: the context's
\* validation fails, and so does the upsert of such an entity or relationship.
C28_UnknownFieldRejected ==
    StoreInitialised =>
        /\ ContextValidate(ContextPayload).ok
        /\ ~ContextValidate(WithUnknownField(ContextPayload)).ok
        /\ UnknownFieldRejectedBy(add_or_update_entity, EntityPayloads)
        /\ UnknownFieldRejectedBy(add_or_update_relationship, RelationshipPayloads)

-----------------------------------------------------------------------------
(* The store under ready payloads, house, user and relationship upserts,   *)
(* and close.                                                              *)

NextStore ==
    \/ UpdatePrimaryData
    \/ UpdateClientUser
    \/ AddOrUpdateUser
    \/ AddOrUpdateHouse
    \/ AddOrUpdateRelationship
    \/ ClosingCleanup

SpecStore == Init /\ [][NextStore]_vars

\* the elements of a list
Elements(list) == {list[i] : i \in DOMAIN list}

\* C29: in every store state reachable by upserts and session-state
\* replacement, every id a house record lists for its rooms, members and
\* entities is a key of rooms.house, users and entities, and every cached
\* relationship (its payload embedded a user, which the schema requires) is
\* keyed by an id that is a key of users.
C29_ReferentialIntegrity ==
    /\ \A h \in DOMAIN cache.houses :
        /\ Elements(cache.houses[h].rooms) \subseteq DOMAIN cache.rooms_house
        /\ DOMAIN cache.houses[h].members \subseteq DOMAIN cache.users
        /\ Elements(cache.houses[h].entities) \subseteq DOMAIN cache.entities
    /\ \A k \in DOMAIN cache.relationships : k \in DOMAIN cache.users

\* a house that lists a room, two members and an entity is cached next to a
\* relationship that a ready payload brought
C29_Witness ==
    /\ "H1" \in DOMAIN cache.houses
    /\ cache.houses["H1"].rooms = <<"R1">>
    /\ DOMAIN cache.houses["H1"].members = {"1", "2"}
    /\ cache.houses["H1"].entities = <<"E1">>
    /\ "2" \in DOMAIN cache.relationships
    /\ last.op = "update_primary_data"
    /\ last.err = NoError

\* C30: a house upsert that fails leaves rooms.house, users, entities and
\* houses exactly as they were before the call: no room, user or entity of
\* the failed payload is present afterwards.
C30_FailedHouseUpsertLeavesStore ==
    StoreInitialised =>
        \A p \in HousePayloads :
            LET r == add_or_update_house(cache, p)
            IN  r.err # NoError =>
                    /\ r.cache.rooms_house = cache.rooms_house
                    /\ r.cache.users = cache.users
                    /\ r.cache.entities = cache.entities
                    /\ r.cache.houses = cache.houses

\* C31: after any sequence of private-room upserts no room id is a key of
\* both rooms.private.single and rooms.private.group.
C31_PrivatePartitionsDisjoint ==
    DOMAIN cache.private_single \cap DOMAIN cache.private_group = {}

\* C32: a connect call whose credential is rejected with InvalidTokenError
\* leaves the store unchanged, its token entry included: client.token after
\* the rejected call equals client.token before it.
C32_RejectedConnectLeavesStore ==
    \A token \in Tokens, outcome \in ConnectionOutcomes :
        TokenRejected(token) =>
            LET r == connect(cache, token, outcome)
            IN  /\ r.cache = cache
                /\ HivenClient_token(r.cache) = HivenClient_token(cache)

-----------------------------------------------------------------------------
(* The client's identity object over sessions: ready payloads and identity  *)
(* updates, reads of client.client_user, and close.                         *)

NextIdentity ==
    \/ UpdatePrimaryData
    \/ UpdateClientUser
    \/ ClientUser
    \/ Close

SpecIdentity == Init /\ [][NextIdentity]_vars

\* C33: client.client_user reflects the current store in every state: it is
\* None whenever the store's client_user record is empty (also after
\* closing_cleanup following an earlier session) and otherwise shows the
\* identity currently cached, not one cached in an earlier session.
C33_ClientUserReflectsStore ==
    LET value == client_user(client, cache).value
    IN  IF DOMAIN cache.client_user = {}
            THEN ~value.set
            ELSE value.set /\ Viewed(value, cache) = cache.client_user

-----------------------------------------------------------------------------
(* Properties of the ready payload on a store without identity *)

\* a ready payload with its user, private rooms and relationships, each of
\* them one its normalizer accepts
ValidReady(p) ==
    /\ {"user", "private_rooms", "relationships"} \subseteq DOMAIN p
    /\ User_format_obj_data(p.user).ok
    /\ \A i \in DOMAIN p.private_rooms :
        /\ PrivateRoom_format_obj_data(p.private_rooms[i]).ok
        /\ p.private_rooms[i].type \in {"1", "2"}
    /\ \A i \in DOMAIN p.relationships :
        /\ Relationship_format_obj_data(p.relationships[i]).ok
        /\ User_format_obj_data(p.relationships[i].user).ok

\* the private rooms and relationships of the payload are in the store
AppliedCompletely(c, p) ==
    /\ DOMAIN c.client_user # {}
    /\ \A i \in DOMAIN p.private_rooms :
        p.private_rooms[i].id \in DOMAIN c.private_single \cup DOMAIN c.private_group
    /\ \A i \in DOMAIN p.relationships :
        p.relationships[i].user_id \in DOMAIN c.relationships

\* C34: update_primary_data establishes client_user before it upserts the
\* payload's private rooms and relationships: on a store without identity
\* (freshly created or freshly reset) no nested upsert fails with the
\* not-initialised error, and a valid ready payload is applied completely.
C34_ReadyOnFreshStore ==
    ~StoreInitialised =>
        \A p \in PrimaryDataPayloads :
            LET r == update_primary_data(cache, p)
            IN  /\ r.err # NotInitialised
                /\ ValidReady(p) => r.err = NoError /\ AppliedCompletely(r.cache, p)

\* a ready payload was applied to a store that held no identity
C34_Witness ==
    /\ last.op = "update_primary_data"
    /\ DOMAIN last.before.client_user = {}
    /\ ValidReady(last.data)
    /\ last.err = NoError
    /\ AppliedCompletely(cache, last.data)

\* the ready payloads that leave out the private rooms or the relationships
OmitsField(p) == {"private_rooms", "relationships"} \ DOMAIN p # {}

\* C35: update_primary_data completes without error for a payload that omits
\* the private_rooms field or the relationships field, and then leaves the
\* corresponding partition (rooms.private or relationships) unchanged.
C35_OmittedFieldsTolerated ==
    StoreInitialised =>
        \A p \in PrimaryDataPayloads :
            ("user" \in DOMAIN p /\ OmitsField(p)) =>
                LET r == update_primary_data(cache, p)
                IN  /\ r.err = NoError
                    /\ "private_rooms" \notin DOMAIN p =>
                        /\ r.cache.private_single = cache.private_single
                        /\ r.cache.private_group = cache.private_group
                    /\ "relationships" \notin DOMAIN p =>
                        r.cache.relationships = cache.relationships

-----------------------------------------------------------------------------
(* Properties of the engine under overlapping dispatches *)

\* the exceptions remove_listener raises
RemovalErrors == {"KeyError", "ValueError"}

\* C36: under overlapping dispatches (a later dispatch of the event holds an
\* invocation of a one-shot listener that an earlier dispatch holds too, and
\* starts while the callback of the earlier one is suspended) the one-shot
\* callback is started only once, and the listener is removed from the
\* registry once, without the removal raising.
C36_OneShotUnderOverlap ==
    \A l \in DOMAIN listeners : \A d1 \in DOMAIN dispatches : \A d2 \in DOMAIN dispatches :
        (listeners[l].kind = "single" /\ d1 < d2) =>
            \A t1 \in TasksFor(d1, l) : \A t2 \in TasksFor(d2, l) :
                /\ TaskOf(d1, t1).state = "suspended" => ~Started(d2, t2)
                /\ TaskOf(d1, t1).exc \notin RemovalErrors
                /\ TaskOf(d2, t2).exc \notin RemovalErrors

-----------------------------------------------------------------------------
(* One gathering of an event's listeners, with the event loop's scheduling: *)
(* a task that is ready takes its step, a suspended callback is resumed.    *)

\* the one call_listeners call of the behaviour
Gather ==
    /\ dispatches = << >>
    /\ CallListeners

NextGather ==
    \/ AddMultiListener
    \/ AddSingleListener
    \/ Gather
    \/ TaskStart
    \/ TaskResume

SpecGatherLive ==
    Init /\ [][NextGather]_vars /\ WF_vars(TaskStart) /\ WF_vars(TaskResume)

\* invocation t of dispatch d has a sibling that has raised
SiblingRaised(d, t) ==
    /\ d \in DOMAIN dispatches
    /\ t \in DOMAIN dispatches[d].tasks
    /\ \E t2 \in DOMAIN dispatches[d].tasks : t2 # t /\ TaskOf(d, t2).state = "failed"

\* invocation t of dispatch d was started and has run to its end
RanToEnd(d, t) ==
    /\ d \in DOMAIN dispatches
    /\ t \in DOMAIN dispatches[d].tasks
    /\ TaskOf(d, t).state \in {"done", "failed"}

\* C37: when one listener registered for an event raises during a dispatch,
\* every other listener that was registered for the event at the start of the
\* dispatch is still invoked and runs to its end for that dispatch.
C37_SiblingsRunAfterFailure ==
    \A t \in 1..MaxCalls : SiblingRaised(1, t) ~> RanToEnd(1, t)

\* a listener has raised while another invocation of the same dispatch had
\* not been started, and that one has since returned
C37_Witness ==
    \E d \in DOMAIN dispatches : \E t \in DOMAIN dispatches[d].tasks :
        /\ t > 1
        /\ TaskOf(d, 1).state = "failed"
        /\ TaskOf(d, t).state = "done"
        /\ dispatches[d].status = "raised"

-----------------------------------------------------------------------------
(* Properties of the one-shot listener's fired flag *)

\* an invocation of listener l whose callback has returned: the task is done,
\* or it failed in the removal that follows the callback
CallbackReturned(l) ==
    \E d \in DOMAIN dispatches : \E t \in TasksFor(d, l) :
        \/ TaskOf(d, t).state = "done"
        \/ TaskOf(d, t).state = "failed" /\ TaskOf(d, t).exc \in RemovalErrors

\* C38: in every reachable state a one-shot listener whose dispatched flag is
\* true is not in the listener registry, and the flag is true only once the
\* listener's callback has run to its end without raising.
C38_FiredFlag ==
    \A l \in DOMAIN listeners :
        (listeners[l].kind = "single" /\ listeners[l].dispatched) =>
            /\ ~IsRegistered(l)
            /\ CallbackReturned(l)

\* a one-shot listener has fired in one dispatch while its callback had
\* raised in an earlier one
C38_Witness ==
    \E l \in DOMAIN listeners : \E d \in DOMAIN dispatches : \E t \in DOMAIN dispatches[d].tasks :
        /\ listeners[l].kind = "single"
        /\ listeners[l].dispatched
        /\ TaskOf(d, t).listener = l
        /\ CallbackRaised(d, t, "single")
        /\ \E d2 \in LaterDispatches(d, l) : \E t2 \in TasksFor(d2, l) :
                TaskOf(d2, t2).state = "done"

-----------------------------------------------------------------------------
(* Properties of the REST layer's readiness *)

\* C39: http_ready is true only between a session creation by connect() and
\* the next close(); after close() and until connect() is called again every
\* verb returns None without issuing a transport request; a connect() that
\* fails leaves http_ready false.
C39_HTTPReadiness ==
    /\ http.http_ready => http.session = "open" /\ ~http.closed
    /\ (http.closed /\ http.call.op \in Verbs) =>
            http.call.result = "None" /\ ~http.call.ready
    /\ (http.call.op = "connect" /\ http.call.result = "raise") => ~http.http_ready

====
